---------------------------- MODULE Spec2Model ----------------------------
(***************************************************************************)
(* A model of the financial transaction insight engine                     *)
(* (src/data_processor.py) and of the session overlay of its web surface   *)
(* (src/api.py).                                                           *)
(*                                                                         *)
(* Text is modelled by strings and the substring, case and ordering        *)
(* operations of Python are computed character by character.  Amounts are  *)
(* integers counting hundredths (paise) of the currency unit.  A datetime  *)
(* is a record [ord, sec]: the proleptic Gregorian ordinal of the day, as  *)
(* datetime.toordinal() gives it, and the second of the day.               *)
(***************************************************************************)
EXTENDS Integers, Sequences, FiniteSets, TLC

VARIABLES
    bank_data,          \* the payload the upstream provider answers with at present
    now,                \* what datetime.now() returns
    transactions,       \* the normalized snapshot handed to the Aggregator
    from_date,          \* the Aggregator's range, two date strings
    to_date,
    ret,                \* the outcome of the last call: what it was and what it gave
    deleted_nudges,     \* _deleted_nudges: session -> set of lower-cased categories
    demo_transactions,  \* _demo_transactions: session -> list of records
    dismissed,          \* history: session -> the categories whose DELETE succeeded
    next_id,            \* the ids uuid4() has handed out so far
    args,               \* the arguments of a call of a pure function
    handlers            \* the requests in flight: each one's arguments, position
                        \* and answer

vars == <<bank_data, now, transactions, from_date, to_date, ret,
          deleted_nudges, demo_transactions, dismissed, next_id, args, handlers>>

-----------------------------------------------------------------------------
(* Characters and strings                                                  *)

\* The characters of the model in code-point order.
Alphabet == " +-./0123456789:ABCDEFGHIJKLMNOPQRSTUVWXYZ_abcdefghijklmnopqrstuvwxyz"
UpperLetters == "ABCDEFGHIJKLMNOPQRSTUVWXYZ"
LowerLetters == "abcdefghijklmnopqrstuvwxyz"
Digits == "0123456789"

CharAt(s, i) == SubSeq(s, i, i)

Chars == {CharAt(Alphabet, i) : i \in 1..Len(Alphabet)}

\* 0 when c is not a character of str, else its first position.
IndexIn(str, c) ==
    IF \E i \in 1..Len(str) : CharAt(str, i) = c
    THEN CHOOSE i \in 1..Len(str) :
            CharAt(str, i) = c /\ \A j \in 1..(i - 1) : CharAt(str, j) # c
    ELSE 0

\* ord(c), and the digit a character writes (-1 when it writes none).
OrdOf == [c \in Chars |-> IndexIn(Alphabet, c)]
DigitOf == [c \in Chars |-> IndexIn(Digits, c) - 1]

Ord(c) == OrdOf[c]

IsDigit(c) == DigitOf[c] >= 0

\* c.upper() and c.lower() of one character.
UpperOf == [c \in Chars |->
              IF IndexIn(LowerLetters, c) > 0
              THEN CharAt(UpperLetters, IndexIn(LowerLetters, c)) ELSE c]
LowerOf == [c \in Chars |->
              IF IndexIn(UpperLetters, c) > 0
              THEN CharAt(LowerLetters, IndexIn(UpperLetters, c)) ELSE c]

UpperChar(c) == UpperOf[c]
LowerChar(c) == LowerOf[c]
IsLetter(c) == UpperOf[c] # LowerOf[c]

RECURSIVE StrUpper(_)
StrUpper(s) == IF s = "" THEN "" ELSE UpperChar(CharAt(s, 1)) \o StrUpper(Tail(s))

RECURSIVE StrLower(_)
StrLower(s) == IF s = "" THEN "" ELSE LowerChar(CharAt(s, 1)) \o StrLower(Tail(s))

\* str.title(): a letter that follows a letter is lower-cased, any other
\* letter is upper-cased.
RECURSIVE TitleFrom(_, _)
TitleFrom(s, afterLetter) ==
    IF s = "" THEN ""
    ELSE LET c == CharAt(s, 1)
         IN (IF afterLetter THEN LowerChar(c) ELSE UpperChar(c))
                \o TitleFrom(Tail(s), IsLetter(c))

StrTitle(s) == TitleFrom(s, FALSE)

\* Python's `k in s` on strings.
Contains(s, k) ==
    \E i \in 1..(Len(s) - Len(k) + 1) : SubSeq(s, i, i + Len(k) - 1) = k

\* Python's s[:n].
Prefix(s, n) == SubSeq(s, 1, IF Len(s) < n THEN Len(s) ELSE n)

\* Python's s < t on strings: code-point lexicographic order.
RECURSIVE StrLess(_, _)
StrLess(s, t) ==
    IF t = "" THEN FALSE
    ELSE IF s = "" THEN TRUE
    ELSE IF CharAt(s, 1) = CharAt(t, 1) THEN StrLess(Tail(s), Tail(t))
    ELSE Ord(CharAt(s, 1)) < Ord(CharAt(t, 1))

StrLeq(s, t) == s = t \/ StrLess(s, t)

\* s.split()[0]: the first run of non-blank characters.
RECURSIVE DropBlanks(_)
DropBlanks(s) == IF s # "" /\ CharAt(s, 1) = " " THEN DropBlanks(Tail(s)) ELSE s

RECURSIVE TakeWord(_)
TakeWord(s) ==
    IF s = "" \/ CharAt(s, 1) = " " THEN "" ELSE CharAt(s, 1) \o TakeWord(Tail(s))

FirstWord(s) == TakeWord(DropBlanks(s))

\* s.split(sep) for a one-character separator.
RECURSIVE SplitOn(_, _)
SplitOn(s, sep) ==
    IF ~Contains(s, sep) THEN <<s>>
    ELSE LET i == IndexIn(s, sep)
         IN <<SubSeq(s, 1, i - 1)>> \o SplitOn(SubSeq(s, i + 1, Len(s)), sep)

AllDigits(s) == s # "" /\ \A i \in 1..Len(s) : IsDigit(CharAt(s, i))

\* The number a string of digits writes.
RECURSIVE DigitsValue(_)
DigitsValue(s) ==
    IF s = "" THEN 0
    ELSE 10 * DigitsValue(SubSeq(s, 1, Len(s) - 1)) + DigitOf[CharAt(s, Len(s))]

\* The decimal digits of n >= 0, left-padded with zeros to the given width.
RECURSIVE NatStr(_)
NatStr(n) == IF n < 10 THEN CharAt(Digits, n + 1)
             ELSE NatStr(n \div 10) \o CharAt(Digits, (n % 10) + 1)

RECURSIVE PadLeft(_, _)
PadLeft(s, width) == IF Len(s) >= width THEN s ELSE PadLeft("0" \o s, width)

-----------------------------------------------------------------------------
(* Conversions that raise ValueError                                       *)

\* The outcome of a conversion: [ok |-> TRUE, val |-> v] or Failed.
Failed == [ok |-> FALSE, val |-> 0]
Ok(v) == [ok |-> TRUE, val |-> v]

\* int(x) of a field that holds decimal digits with an optional sign.
ParseInt(s) ==
    IF AllDigits(s) THEN Ok(DigitsValue(s))
    ELSE IF Len(s) > 1 /\ CharAt(s, 1) = "-" /\ AllDigits(Tail(s))
         THEN Ok(0 - DigitsValue(Tail(s)))
    ELSE Failed

\* float(x) of a field written as [-]digits[.d[d]], in hundredths.  Text
\* that is not a number gives Failed (ValueError).
UnsignedHundredths(s) ==
    LET parts == SplitOn(s, ".")
    IN IF Len(parts) = 1 /\ AllDigits(parts[1]) THEN Ok(100 * DigitsValue(parts[1]))
       ELSE IF Len(parts) = 2 /\ AllDigits(parts[1]) /\ AllDigits(parts[2]) /\ Len(parts[2]) <= 2
            THEN Ok(100 * DigitsValue(parts[1])
                    + (IF Len(parts[2]) = 1 THEN 10 ELSE 1) * DigitsValue(parts[2]))
       ELSE Failed

ParseFloat(s) ==
    IF s # "" /\ CharAt(s, 1) = "-"
    THEN LET u == UnsignedHundredths(Tail(s))
         IN IF u.ok THEN Ok(0 - u.val) ELSE Failed
    ELSE UnsignedHundredths(s)

\* int(a / b) for b > 0: the quotient truncated toward zero.
TruncDiv(a, b) == IF a >= 0 THEN a \div b ELSE 0 - ((0 - a) \div b)

\* int(x) of a float held in hundredths.
TruncUnits(h) == TruncDiv(h, 100)

-----------------------------------------------------------------------------
(* Calendar                                                                *)

SecondsPerDay == 86400

IsLeap(y) == (y % 4 = 0) /\ ((y % 100 # 0) \/ (y % 400 = 0))

DaysInMonth(y, m) ==
    IF m = 2 THEN (IF IsLeap(y) THEN 29 ELSE 28)
    ELSE IF m \in {4, 6, 9, 11} THEN 30 ELSE 31

RECURSIVE DaysBeforeMonth(_, _)
DaysBeforeMonth(y, m) ==
    IF m = 1 THEN 0 ELSE DaysBeforeMonth(y, m - 1) + DaysInMonth(y, m - 1)

DaysBeforeYear(y) ==
    ((y - 1) * 365) + ((y - 1) \div 4) - ((y - 1) \div 100) + ((y - 1) \div 400)

\* date(y, m, d).toordinal()
YmdToOrd(y, m, d) == DaysBeforeYear(y) + DaysBeforeMonth(y, m) + d

\* date.fromordinal(n) as <<year, month, day>>.
OrdToYmd(n) ==
    LET n0   == n - 1
        n400 == n0 \div 146097
        r400 == n0 % 146097
        n100 == r400 \div 36524
        r100 == r400 % 36524
        n4   == r100 \div 1461
        r4   == r100 % 1461
        n1   == r4 \div 365
        r1   == r4 % 365
        year == (n400 * 400) + 1 + (n100 * 100) + (n4 * 4) + n1
    IN IF n1 = 4 \/ n100 = 4 THEN <<year - 1, 12, 31>>
       ELSE LET month == CHOOSE m \in 1..12 :
                            /\ DaysBeforeMonth(year, m) <= r1
                            /\ r1 < DaysBeforeMonth(year, m) + DaysInMonth(year, m)
            IN <<year, month, r1 - DaysBeforeMonth(year, month) + 1>>

\* datetime.strptime(s, '%Y-%m-%d'): four digits, one or two digits, one or
\* two digits, a day that exists; anything else raises ValueError.
Strptime(s) ==
    LET p == SplitOn(s, "-")
    IN IF /\ Len(p) = 3
          /\ Len(p[1]) = 4 /\ AllDigits(p[1])
          /\ Len(p[2]) \in 1..2 /\ AllDigits(p[2])
          /\ Len(p[3]) \in 1..2 /\ AllDigits(p[3])
       THEN LET y == DigitsValue(p[1])
                m == DigitsValue(p[2])
                d == DigitsValue(p[3])
            IN IF y >= 1 /\ m \in 1..12 /\ d >= 1 /\ d <= DaysInMonth(y, m)
               THEN Ok([ord |-> YmdToOrd(y, m, d), sec |-> 0])
               ELSE Failed
       ELSE Failed

\* dt.strftime('%Y-%m-%d')
Strftime(dt) ==
    LET ymd == OrdToYmd(dt.ord)
    IN PadLeft(NatStr(ymd[1]), 4) \o "-" \o PadLeft(NatStr(ymd[2]), 2)
          \o "-" \o PadLeft(NatStr(ymd[3]), 2)

\* dt.strftime('%Y-%m')
StrftimeMonth(dt) ==
    LET ymd == OrdToYmd(dt.ord)
    IN PadLeft(NatStr(ymd[1]), 4) \o "-" \o PadLeft(NatStr(ymd[2]), 2)

\* dt + timedelta(days=n)
PlusDays(dt, n) == [ord |-> dt.ord + n, sec |-> dt.sec]

\* a < b, a <= b on datetimes
DtLess(a, b) == a.ord < b.ord \/ (a.ord = b.ord /\ a.sec < b.sec)
DtLeq(a, b) == ~DtLess(b, a)

\* (a - b).days: the whole days of the difference, rounded toward minus
\* infinity as timedelta normalizes it.
DaysBetween(a, b) ==
    LET secs == ((a.ord - b.ord) * SecondsPerDay) + (a.sec - b.sec)
    IN IF secs >= 0 THEN secs \div SecondsPerDay
       ELSE 0 - (((0 - secs) + SecondsPerDay - 1) \div SecondsPerDay)

\* datetime(y, m, d) at the given second of the day
DateTime(y, m, d, s) == [ord |-> YmdToOrd(y, m, d), sec |-> s]

-----------------------------------------------------------------------------
(* CategoryClassifier                                                      *)

\* CATEGORY_MAPPINGS, in the order the dict literal lists its keys.
CATEGORY_MAPPINGS == <<
    <<"GROCERIES", "Groceries">>, <<"DINING", "Dining">>,
    <<"CREDIT CARD", "Credit Card Payment">>, <<"BILL PAYMENT", "Bills">>,
    <<"BILLPAY", "Bills">>, <<"MUTUAL FUND", "Investment">>,
    <<"LUMPSUM INV", "Investment">>, <<"SIP", "Investment">>,
    <<"ZERODHA", "Investment">>, <<"GOLD ETF", "Investment">>,
    <<"RD", "Savings">>, <<"FD", "Savings">>, <<"FIXED DEPOSIT", "Savings">>,
    <<"NEFT", "Transfer">>, <<"IMPS", "Transfer">>, <<"UPI", "Shopping">>,
    <<"EMI", "Loan">>, <<"INSTALLMENT", "Loan">>,
    <<"NETFLIX", "Streaming">>, <<"SONYLIV", "Streaming">>,
    <<"HOTSTAR", "Streaming">>, <<"AMAZON PRIME", "Streaming">>,
    <<"SPOTIFY", "Streaming">>, <<"YOUTUBE", "Streaming">>,
    <<"ACT BROADBAND", "Internet">>, <<"AIRTEL", "Telecom">>,
    <<"JIO", "Telecom">>, <<"VODAFONE", "Telecom">>,
    <<"TATASKY", "DTH">>, <<"DISHTV", "DTH">>,
    <<"INSURANCE", "Insurance">>, <<"LIC", "Insurance">>,
    <<"POLICY", "Insurance">>,
    <<"CARD_PAYMENT", "Credit Card Payment">>, <<"AMEX", "Credit Card Payment">>,
    <<"HDFC CREDIT CARD", "Credit Card Payment">>,
    <<"ICICI CREDIT CARD", "Credit Card Payment">>,
    <<"SBI CARD", "Credit Card Payment">>,
    <<"RENT", "Housing">> >>

AUTOPAY_CATEGORIES == {
    "Housing", "Utilities", "Streaming", "Internet", "Telecom", "DTH",
    "Insurance", "Loan", "Investment", "Savings", "Credit Card Payment" }

priority_keywords == <<
    "NETFLIX", "SONYLIV", "HOTSTAR", "AMAZON PRIME", "SPOTIFY", "YOUTUBE",
    "ACT BROADBAND", "AIRTEL", "JIO", "VODAFONE", "TATASKY", "DISHTV",
    "INSURANCE", "LIC", "POLICY",
    "CARD_PAYMENT", "AMEX", "HDFC CREDIT CARD", "ICICI CREDIT CARD", "SBI CARD",
    "SIP", "MUTUAL FUND", "LUMPSUM INV", "ZERODHA", "GOLD ETF",
    "RD", "FD", "FIXED DEPOSIT",
    "EMI", "INSTALLMENT",
    "RENT" >>

\* CATEGORY_MAPPINGS.get(keyword, 'Others')
MappingGet(keyword) ==
    IF \E i \in 1..Len(CATEGORY_MAPPINGS) : CATEGORY_MAPPINGS[i][1] = keyword
    THEN CATEGORY_MAPPINGS[CHOOSE i \in 1..Len(CATEGORY_MAPPINGS) :
                              CATEGORY_MAPPINGS[i][1] = keyword][2]
    ELSE "Others"

\* The keywords of CATEGORY_MAPPINGS in the order the dictionary lists them.
MappingKeys == [i \in 1..Len(CATEGORY_MAPPINGS) |-> CATEGORY_MAPPINGS[i][1]]

\* The index, from i on, of the first keyword that occurs in combined, 0
\* when none does.
RECURSIVE FirstKeywordFrom(_, _, _)
FirstKeywordFrom(keywords, combined, i) ==
    IF i > Len(keywords) THEN 0
    ELSE IF Contains(combined, keywords[i]) THEN i
    ELSE FirstKeywordFrom(keywords, combined, i + 1)

\* The classifier with the loop over CATEGORY_MAPPINGS run before the loop
\* over priority_keywords.
categorize_transaction_mappings_first(narration, merchant) ==
    LET combined == StrUpper(narration \o " " \o merchant)
        p == FirstKeywordFrom(priority_keywords, combined, 1)
        g == FirstKeywordFrom(MappingKeys, combined, 1)
    IN IF g > 0 THEN CATEGORY_MAPPINGS[g][2]
       ELSE IF p > 0 THEN MappingGet(priority_keywords[p])
       ELSE "Others"

\* Lines 74-109.
categorize_transaction(narration, merchant) ==
    LET combined == StrUpper(narration \o " " \o merchant)
        p == FirstKeywordFrom(priority_keywords, combined, 1)
        g == FirstKeywordFrom(MappingKeys, combined, 1)
    IN IF p > 0 THEN MappingGet(priority_keywords[p])
       ELSE IF g > 0 THEN CATEGORY_MAPPINGS[g][2]
       ELSE "Others"

-----------------------------------------------------------------------------
(* TransactionNormalizer                                                   *)

\* What a call gives: a value, or the exception it raises.
Return(v) == [kind |-> "return", value |-> v]
Raise(e) == [kind |-> "raise", exc |-> e]

\* bank.get('bank', 'Unknown Bank') and bank.get('txns', [])
BankName(bank) == IF "bank" \in DOMAIN bank THEN bank.bank ELSE "Unknown Bank"
BankTxns(bank) == IF "txns" \in DOMAIN bank THEN bank.txns ELSE <<>>

\* The rows of all banks in the order the nested loops visit them, each
\* with the name of its bank.
RECURSIVE RowsInOrder(_)
RowsInOrder(banks) ==
    IF banks = <<>> THEN <<>>
    ELSE LET bank == Head(banks)
         IN [i \in 1..Len(BankTxns(bank)) |->
                [row |-> BankTxns(bank)[i], bank |-> BankName(bank)]]
            \o RowsInOrder(Tail(banks))

\* Lines 124-130: the arity test of a row.
RowAccepted(txn) == Len(txn) >= 6

\* The direction with every code but 2 read as a credit.
DirectionOf_debit_is_two(code) == IF code = 2 THEN "DEBIT" ELSE "CREDIT"

\* Line 139: the direction of a row from its integer code.
DirectionOf(code) == IF code = 1 THEN "CREDIT" ELSE "DEBIT"

\* Lines 125-144: the record a row of six or more fields becomes; float()
\* and int() raise ValueError on text that is not a number.
NormalizeRow(txn, bank_name) ==
    LET amount   == ParseFloat(txn[1])
        txn_type == ParseInt(txn[4])
        balance  == ParseFloat(txn[6])
    IN IF ~amount.ok \/ ~txn_type.ok \/ ~balance.ok THEN Raise("ValueError")
       ELSE Return([amount    |-> amount.val,
                    narration |-> txn[2],
                    date      |-> txn[3],
                    txn_type  |-> DirectionOf(txn_type.val),
                    mode      |-> txn[5],
                    balance   |-> balance.val,
                    category  |-> categorize_transaction(txn[2], txn[5]),
                    bank      |-> bank_name])

RECURSIVE NormalizeRows(_, _)
NormalizeRows(rows, acc) ==
    IF rows = <<>> THEN Return(acc)
    ELSE IF ~RowAccepted(Head(rows).row) THEN NormalizeRows(Tail(rows), acc)
    ELSE LET r == NormalizeRow(Head(rows).row, Head(rows).bank)
         IN IF r.kind = "raise" THEN r
            ELSE NormalizeRows(Tail(rows), Append(acc, r.value))

parse_bank_transactions(data) ==
    IF "bankTransactions" \notin DOMAIN data THEN Return(<<>>)
    ELSE NormalizeRows(RowsInOrder(data.bankTransactions), <<>>)

-----------------------------------------------------------------------------
(* RecurringPaymentDetector                                                *)

\* Lines 226-234: the label of a SIP debit, by fund house.
SipLabel(narration) ==
    IF Contains(narration, "KOTAKMF") THEN "Kotak MF SIP"
    ELSE IF Contains(narration, "ADITYABIRLAMF") THEN "Aditya Birla MF SIP"
    ELSE IF Contains(narration, "ICICIPRUMF") THEN "ICICI Pru MF SIP"
    ELSE IF Contains(narration, "HDFCMF") THEN "HDFC MF SIP"
    ELSE "SIP Investment"

\* Lines 237-241: the label of a streaming debit, by service.
StreamingServices == <<"NETFLIX", "SONYLIV", "HOTSTAR", "SPOTIFY", "AMAZON PRIME", "YOUTUBE">>

StreamingLabel(narration) ==
    LET i == FirstKeywordFrom(StreamingServices, narration, 1)
    IN IF i > 0 THEN StrTitle(StreamingServices[i]) ELSE "Streaming Service"

\* Lines 220-260: the (label, amount) key a debit is grouped under.
GroupKey(txn) ==
    LET narration == StrUpper(txn.narration)
        units     == TruncUnits(txn.amount)
    IN IF txn.category = "Investment" /\ Contains(narration, "SIP")
            THEN <<SipLabel(narration), units>>
       ELSE IF txn.category = "Streaming"
            THEN <<StreamingLabel(narration), units>>
       ELSE IF txn.category = "Internet" /\ Contains(narration, "ACT BROADBAND")
            THEN <<"ACT Broadband", units>>
       ELSE IF txn.category = "Loan" /\ Contains(narration, "EMI")
            THEN <<"EMI Payment", units>>
       ELSE IF txn.category = "Savings" /\ Contains(narration, "RD")
            THEN <<"RD Installment", units>>
       ELSE IF txn.category = "Housing" /\ Contains(narration, "RENT")
            THEN <<"Rent", units>>
       ELSE IF txn.category = "Credit Card Payment"
            THEN (IF Contains(narration, "AMEX")
                  THEN <<"AMEX Card Payment", units>>
                  ELSE <<"Credit Card Payment", units>>)
       ELSE <<txn.category, TruncDiv(txn.amount, 10000) * 100>>

\* The transactions of the autopay categories, whatever their direction.
Eligible_any_direction(txn) == txn.category \in AUTOPAY_CATEGORIES

\* Line 217: the transactions the detector looks at.
Eligible(txn) == txn.txn_type = "DEBIT" /\ txn.category \in AUTOPAY_CATEGORIES

\* Lines 213-262: recurring_patterns, a dict in insertion order, as the
\* list of its items [key, txns].
RECURSIVE PatternIndexFrom(_, _, _)
PatternIndexFrom(patterns, key, i) ==
    IF i > Len(patterns) THEN 0
    ELSE IF patterns[i].key = key THEN i
    ELSE PatternIndexFrom(patterns, key, i + 1)

RECURSIVE GroupInto(_, _)
GroupInto(txns, patterns) ==
    IF txns = <<>> THEN patterns
    ELSE LET txn == Head(txns)
             key == GroupKey(txn)
             i   == PatternIndexFrom(patterns, key, 1)
         IN IF ~Eligible(txn) THEN GroupInto(Tail(txns), patterns)
            ELSE IF i > 0
                 THEN GroupInto(Tail(txns),
                        [patterns EXCEPT ![i].txns = Append(@, txn)])
            ELSE GroupInto(Tail(txns),
                        Append(patterns, [key |-> key, txns |-> <<txn>>]))

recurring_patterns(txns) == GroupInto(txns, <<>>)

\* The order of the groups by their number of transactions alone.
PatternKeyLess_count_only(a, b) == Len(a.txns) < Len(b.txns)

\* Line 272: the sort key (len(x[1]), x[0][1]) and its tuple order.
PatternKeyLess(a, b) ==
    \/ Len(a.txns) < Len(b.txns)
    \/ (Len(a.txns) = Len(b.txns) /\ a.key[2] < b.key[2])

\* Lines 271-273: sorted(..., reverse=True), which keeps items of equal key
\* in their original order.
RECURSIVE InsertPattern(_, _)
InsertPattern(sorted, item) ==
    IF sorted = <<>> THEN <<item>>
    ELSE IF PatternKeyLess(Head(sorted), item) THEN <<item>> \o sorted
    ELSE <<Head(sorted)>> \o InsertPattern(Tail(sorted), item)

RECURSIVE SortPatterns(_, _)
SortPatterns(items, sorted) ==
    IF items = <<>> THEN sorted
    ELSE SortPatterns(Tail(items), InsertPattern(sorted, Head(items)))

sorted_patterns(patterns) == SortPatterns(patterns, <<>>)

\* Lines 277-288: the broader category a label is deduplicated under.
category_key(description) ==
    IF Contains(description, "SIP") THEN "SIP"
    ELSE IF Contains(description, "Card Payment") THEN "CreditCard"
    ELSE IF Contains(description, "Rent") THEN "Rent"
    ELSE IF Contains(description, "EMI") THEN "EMI"
    ELSE IF Contains(description, "RD") THEN "RD"
    ELSE IF Contains(description, " ") THEN FirstWord(description)
    ELSE description

\* The group is passed over although its category has no nudge yet: never.
AlreadyAdded_never(key, added_categories) == FALSE

\* Lines 291-292: the group is passed over when its category has a nudge.
AlreadyAdded(key, added_categories) == key \in added_categories

\* Line 295: max(txns, key=lambda x: x['date']), the first of the
\* transactions whose date string is greatest.
LatestOf(txns) ==
    txns[CHOOSE i \in 1..Len(txns) :
            /\ \A j \in 1..Len(txns) : StrLeq(txns[j].date, txns[i].date)
            /\ \A j \in 1..(i - 1) : txns[j].date # txns[i].date]

\* A due date that a weekly cycle for SIP labels would give.
NextDue_bylabel(description, latest_date, current_date) ==
    IF DtLess(current_date, latest_date)
    THEN (IF Contains(description, "SIP")
          THEN PlusDays(current_date, 7) ELSE PlusDays(current_date, 30))
    ELSE IF DaysBetween(current_date, latest_date) > 25
         THEN PlusDays(current_date, 5)
    ELSE PlusDays(latest_date, 30)

\* A due date counted from the latest payment alone.
NextDue_uncapped(description, latest_date, current_date) == PlusDays(latest_date, 30)

\* Lines 300-316: the next due date of a group.
NextDue(description, latest_date, current_date) ==
    IF DtLess(current_date, latest_date)
    THEN (IF Contains(description, "SIP") \/ Contains(description, "RD")
              THEN PlusDays(current_date, 30)
          ELSE IF Contains(description, "EMI") \/ Contains(description, "Rent")
              THEN PlusDays(current_date, 30)
          ELSE IF description \in {"Netflix", "Sonyliv", "ACT Broadband", "Spotify", "Youtube"}
              THEN PlusDays(current_date, 30)
          ELSE PlusDays(current_date, 30))
    ELSE IF DaysBetween(current_date, latest_date) > 25
         THEN PlusDays(current_date, 5)
    ELSE PlusDays(latest_date, 30)

\* Lines 319-326: the nudge of a group.
MakeNudge(description, amount, latest, next_due) ==
    [category         |-> description,
     amount           |-> amount,
     due              |-> Strftime(next_due),
     last_paid        |-> latest.date,
     merchant         |-> Prefix(latest.narration, 50),
     autopay_eligible |-> TRUE]

\* Lines 275-329: the loop over the sorted groups; strptime raises
\* ValueError on the latest date of a group that is no date.
RECURSIVE BuildNudges(_, _, _, _)
BuildNudges(items, nudges, added_categories, current_date) ==
    IF items = <<>> THEN Return(nudges)
    ELSE LET description == Head(items).key[1]
             amount      == Head(items).key[2]
             key         == category_key(description)
             latest      == LatestOf(Head(items).txns)
             latest_date == Strptime(latest.date)
         IN IF AlreadyAdded(key, added_categories)
            THEN BuildNudges(Tail(items), nudges, added_categories, current_date)
            ELSE IF ~latest_date.ok THEN Raise("ValueError")
            ELSE BuildNudges(Tail(items),
                    Append(nudges,
                           MakeNudge(description, amount, latest,
                                     NextDue(description, latest_date.val, current_date))),
                    added_categories \cup {key}, current_date)

RECURSIVE InsertByDue(_, _)
InsertByDue(sorted, nudge) ==
    IF sorted = <<>> THEN <<nudge>>
    ELSE IF StrLess(nudge.due, Head(sorted).due) THEN <<nudge>> \o sorted
    ELSE <<Head(sorted)>> \o InsertByDue(Tail(sorted), nudge)

RECURSIVE SortFrom(_, _)
SortFrom(nudges, sorted) ==
    IF nudges = <<>> THEN sorted
    ELSE SortFrom(Tail(nudges), InsertByDue(sorted, Head(nudges)))

\* The list left in the order the loop produced it.
SortByDue_unsorted(nudges) == nudges

\* Line 332: nudges.sort(key=lambda x: x['due']), a stable sort.
SortByDue(nudges) == SortFrom(nudges, <<>>)

\* Lines 208-333: TransactionProcessor.get_payment_nudges at time current_date.
get_payment_nudges(data, current_date) ==
    LET parsed == parse_bank_transactions(data)
    IN IF parsed.kind = "raise" THEN parsed
       ELSE LET built == BuildNudges(sorted_patterns(recurring_patterns(parsed.value)),
                                     <<>>, {}, current_date)
            IN IF built.kind = "raise" THEN built
               ELSE Return(SortByDue(built.value))

-----------------------------------------------------------------------------
(* Inputs of the engine                                                    *)

\* The most rows a payload of the model holds.
MaxRows == 3

\* Rows as the provider documents them,
\* [amount, narration, date, directionCode, mode, balance], one of them
\* with a signed amount, one a credit of an autopay category, one with a
\* direction code that is neither 1 nor 2, and rows that
\* are malformed: too short, an amount that is no number, a date that is
\* no calendar date.
WellFormedRows == {
    <<"5000", "SIP-KOTAKMF-GROWTH", "2024-11-25", "2", "ACH", "95000">>,
    <<"3000.50", "sip hdfcmf", "2024-12-05", "2", "ACH", "92000">>,
    <<"649", "NETFLIX.COM", "2024-12-20", "2", "CARD", "91351">>,
    <<"15000", "Rent to landlord", "2024-12-05", "2", "NEFT", "76351">>,
    <<"15000", "Rent to landlord", "2024-11-25", "2", "NEFT", "61351">>,
    <<"12000", "AMEX BILL", "2025-01-05", "2", "NEFT", "49351">>,
    <<"8000", "HDFC CREDIT CARD", "2024-11-25", "2", "", "41351">>,
    <<"2550", "LIC PREMIUM", "2024-12-05", "2", "", "38801">>,
    <<"80000", "SALARY", "2024-12-05", "1", "NEFT", "118801">>,
    <<"450", "UPI-SWIGGY", "2024-12-20", "2", "UPI", "118351">>,
    <<"-649.00", "NETFLIX REVERSAL", "2024-12-21", "2", "CARD", "119000">>,
    <<"649", "NETFLIX REFUND", "2024-12-22", "1", "CARD", "119649">>,
    <<"2550", "LIC PREMIUM", "2024-11-25", "3", "", "117099">> }

MalformedRows == {
    <<"100", "NETFLIX.COM", "2024-12-05">>,
    <<"abc", "NETFLIX.COM", "2024-12-05", "2", "CARD", "1000">>,
    <<"649", "NETFLIX.COM", "2024-02-30", "2", "CARD", "1000">> }

Rows == WellFormedRows \cup MalformedRows

\* The lists of at most max rows.
RowSeqs(max) == UNION {[1..n -> Rows] : n \in 0..max}

\* What the provider's client hands over on a failed fetch
\* (src/mcp_client.py, _fetch_json).
ErrorPayload == [error |-> "HTTP 500: upstream"]

\* The rows in one account, or split over two accounts after the first row.
PayloadsOf(rows) ==
    {[bankTransactions |-> <<[bank |-> "HDFC Bank", txns |-> rows]>>]}
    \cup (IF Len(rows) < 2 THEN {}
          ELSE {[bankTransactions |->
                    <<[txns |-> SubSeq(rows, 1, 1)],
                      [bank |-> "ICICI Bank", txns |-> SubSeq(rows, 2, Len(rows))]>>]})

\* The payloads of at most max rows.
Payloads(max) ==
    {ErrorPayload, [bankTransactions |-> <<>>], [bankTransactions |-> <<[bank |-> "HDFC Bank"]>>]}
    \cup UNION {PayloadsOf(rows) : rows \in RowSeqs(max)}

\* Reference times around the dates of the rows.
Nows == { DateTime(2024, 12, 1, 0),
          DateTime(2024, 12, 20, 0),
          DateTime(2024, 12, 21, 43200) }

NoCall == [op |-> "none", out |-> Return(<<>>)]

-----------------------------------------------------------------------------
(* The engine called on a payload: SpecEngine                              *)

InitEngine ==
    /\ bank_data \in Payloads(MaxRows)
    /\ now \in Nows
    /\ ret = NoCall
    /\ transactions = <<>>
    /\ from_date = ""
    /\ to_date = ""
    /\ deleted_nudges = <<>>
    /\ demo_transactions = <<>>
    /\ dismissed = <<>>
    /\ next_id = 0
    /\ args = <<>>
    /\ handlers = <<>>

CallParse ==
    /\ ret = NoCall
    /\ ret' = [op |-> "parse_bank_transactions", out |-> parse_bank_transactions(bank_data)]
    /\ UNCHANGED <<bank_data, now, transactions, from_date, to_date,
                   deleted_nudges, demo_transactions, dismissed, next_id, args, handlers>>

CallNudges ==
    /\ ret = NoCall
    /\ ret' = [op |-> "get_payment_nudges", out |-> get_payment_nudges(bank_data, now)]
    /\ UNCHANGED <<bank_data, now, transactions, from_date, to_date,
                   deleted_nudges, demo_transactions, dismissed, next_id, args, handlers>>

NextEngine == CallParse \/ CallNudges

SpecEngine == InitEngine /\ [][NextEngine]_vars

-----------------------------------------------------------------------------
(* Claims about the RecurringPaymentDetector and the Normalizer            *)

NudgesReturned == ret.op = "get_payment_nudges" /\ ret.out.kind = "return"

\* The groups of the payload, when its rows could be normalized.
GroupsOf(data) ==
    LET parsed == parse_bank_transactions(data)
    IN IF parsed.kind = "return" THEN recurring_patterns(parsed.value) ELSE <<>>

\* C1: the list get_payment_nudges returns never holds two nudges whose
\* labels map to the same broad dedup key.
C1_NoTwoNudgesShareDedupKey ==
    NudgesReturned =>
        \A i, j \in 1..Len(ret.out.value) :
            i < j => category_key(ret.out.value[i].category)
                        # category_key(ret.out.value[j].category)

\* A call returned nudges for a payload in which two groups share a key.
C1_Witness ==
    /\ NudgesReturned
    /\ ret.out.value # <<>>
    /\ \E i, j \in 1..Len(GroupsOf(bank_data)) :
            /\ i < j
            /\ category_key(GroupsOf(bank_data)[i].key[1])
                  = category_key(GroupsOf(bank_data)[j].key[1])

\* The calendar day a due string names.
DueDay(nudge) == Strptime(nudge.due).val.ord

\* C3: the returned list is in ascending order of next-due date, the due
\* dates compared as calendar dates.
C3_SortedByDueDate ==
    NudgesReturned =>
        \A i, j \in 1..Len(ret.out.value) :
            i < j => /\ Strptime(ret.out.value[i].due).ok
                     /\ Strptime(ret.out.value[j].due).ok
                     /\ DueDay(ret.out.value[i]) <= DueDay(ret.out.value[j])

\* A call returned two nudges of different due dates that the loop had
\* produced in the other order.
C3_Witness ==
    /\ NudgesReturned
    /\ Len(ret.out.value) >= 2
    /\ DueDay(ret.out.value[1]) < DueDay(ret.out.value[Len(ret.out.value)])
    /\ BuildNudges(sorted_patterns(GroupsOf(bank_data)), <<>>, {}, now)
          # Return(ret.out.value)

\* The days of the dates of a group that are calendar dates.
GroupDays(txns) ==
    {Strptime(txns[i].date).val.ord : i \in {k \in 1..Len(txns) : Strptime(txns[k].date).ok}}

Greatest(S) == CHOOSE x \in S : \A y \in S : y <= x

\* The due day the three-way rule gives for a latest day, whatever the label.
RuleDueDay(latest_day, current) ==
    LET since == ((current.ord - latest_day) * SecondsPerDay) + current.sec
    IN IF since < 0 THEN current.ord + 30
       ELSE IF since \div SecondsPerDay > 25 THEN current.ord + 5
       ELSE latest_day + 30

\* C4: the due date of every nudge is the one the rule gives for the latest
\* date of its group: now+30 days when that date is after now, else now+5
\* days when more than 25 whole days have passed since it, else that date
\* +30 days; the label plays no part.
C4_NextDueRule ==
    NudgesReturned =>
        \A i \in 1..Len(ret.out.value) :
            \E g \in 1..Len(GroupsOf(bank_data)) :
                LET item == GroupsOf(bank_data)[g]
                IN /\ item.key = <<ret.out.value[i].category, ret.out.value[i].amount>>
                   /\ GroupDays(item.txns) # {}
                   /\ ret.out.value[i].due =
                        Strftime([ord |-> RuleDueDay(Greatest(GroupDays(item.txns)), now),
                                  sec |-> 0])

\* A call returned nudges of all three branches of the rule.
C4_Witness ==
    /\ NudgesReturned
    /\ \E i, j, k \in 1..Len(ret.out.value) :
          /\ DtLess(now, Strptime(ret.out.value[i].last_paid).val)
          /\ DaysBetween(now, Strptime(ret.out.value[j].last_paid).val) > 25
          /\ DaysBetween(now, Strptime(ret.out.value[k].last_paid).val) \in 0..25

\* All the rows of a payload, in order.
AllRows(data) ==
    IF "bankTransactions" \in DOMAIN data
    THEN LET rs == RowsInOrder(data.bankTransactions)
         IN [i \in 1..Len(rs) |-> rs[i].row]
    ELSE <<>>

\* A row of six fields or more whose amount is a number and whose date is
\* a calendar date.
WellFormed(row) == Len(row) >= 6 /\ ParseFloat(row[1]).ok /\ Strptime(row[3]).ok

\* C5: for an empty or malformed input (no transactions, an error-shaped
\* payload, rows of wrong arity or with an unparsable amount or date)
\* get_payment_nudges returns the empty list and raises nothing.
C5_MalformedInputGivesNoNudges ==
    (/\ ret.op = "get_payment_nudges"
     /\ \A i \in 1..Len(AllRows(bank_data)) : ~WellFormed(AllRows(bank_data)[i]))
        => ret.out = Return(<<>>)

\* The records of the well-formed rows of a payload, in order.
RECURSIVE WellFormedRecords(_)
WellFormedRecords(rows) ==
    IF rows = <<>> THEN <<>>
    ELSE IF WellFormed(Head(rows).row)
         THEN <<NormalizeRow(Head(rows).row, Head(rows).bank).value>>
                 \o WellFormedRecords(Tail(rows))
    ELSE WellFormedRecords(Tail(rows))

\* C6: parse_bank_transactions never raises; it skips every row of fewer
\* than 6 fields or with an unparsable amount or date and emits every
\* well-formed row of the payload.
C6_ParseSkipsMalformedRows ==
    ret.op = "parse_bank_transactions" =>
        /\ ret.out.kind = "return"
        /\ ret.out.value =
              (IF "bankTransactions" \in DOMAIN bank_data
               THEN WellFormedRecords(RowsInOrder(bank_data.bankTransactions))
               ELSE <<>>)

\* Group g of the groups comes before group h when the groups are put in
\* order of their number of transactions, the greater first, then of their
\* amount, the greater first; groups equal in both stay in the order in
\* which the payload first showed them.
ComesBefore(groups, g, h) ==
    \/ Len(groups[g].txns) > Len(groups[h].txns)
    \/ /\ Len(groups[g].txns) = Len(groups[h].txns)
       /\ \/ groups[g].key[2] > groups[h].key[2]
          \/ (groups[g].key[2] = groups[h].key[2] /\ g < h)

\* The groups of the list that share the dedup key of group g.
SameKeyAs(groups, g) ==
    {h \in 1..Len(groups) :
        category_key(groups[h].key[1]) = category_key(groups[g].key[1])}

\* C20: for each dedup key that has a group, the one nudge emitted is that
\* of the group that comes first when all groups are ordered by number of
\* transactions descending, then group amount descending; every other
\* group of that key gives no nudge.
C20_FirstGroupPerKey ==
    NudgesReturned =>
        LET groups == GroupsOf(bank_data)
            nudges == ret.out.value
        IN \A g \in 1..Len(groups) :
              LET emitted == \E i \in 1..Len(nudges) :
                                /\ nudges[i].category = groups[g].key[1]
                                /\ nudges[i].amount = groups[g].key[2]
              IN emitted <=> \A h \in SameKeyAs(groups, g) \ {g} :
                                ComesBefore(groups, g, h)

\* Nudges were returned for a payload in which a group of two transactions
\* and a group of one transaction of a greater amount share a dedup key.
C20_Witness ==
    /\ NudgesReturned
    /\ ret.out.value # <<>>
    /\ LET groups == GroupsOf(bank_data)
       IN \E g \in 1..Len(groups) : \E h \in SameKeyAs(groups, g) :
             /\ Len(groups[g].txns) > Len(groups[h].txns)
             /\ groups[g].key[2] < groups[h].key[2]

\* C18: every record parse_bank_transactions emits carries an amount that
\* is not negative, the sign being carried by txn_type alone (as every
\* record add_transaction places in the manual store does).
C18_AmountsNotNegative ==
    (ret.op = "parse_bank_transactions" /\ ret.out.kind = "return")
        => \A i \in 1..Len(ret.out.value) : ret.out.value[i].amount >= 0

\* A row the normalizer turns into a debit of an autopay category.
AutopayDebit(row) ==
    /\ Len(row) >= 6
    /\ ParseInt(row[4]).ok
    /\ ParseInt(row[4]).val # 1
    /\ categorize_transaction(row[2], row[5]) \in AUTOPAY_CATEGORIES

\* The payload with every other row taken out of every account.
OnlyAutopayDebits(data) ==
    IF "bankTransactions" \notin DOMAIN data THEN data
    ELSE [bankTransactions |->
            [b \in 1..Len(data.bankTransactions) |->
                LET bank == data.bankTransactions[b]
                IN IF "txns" \in DOMAIN bank
                   THEN [bank EXCEPT !.txns = SelectSeq(bank.txns, AutopayDebit)]
                   ELSE bank]]

\* C21: every returned nudge is derived only from DEBIT transactions of the
\* AUTOPAY_CATEGORIES: the list is the one the payload gives with every
\* credit and every row of another category taken out, and the label,
\* amount and last-paid date of each nudge are those of such a debit.
C21_OnlyAutopayDebitsContribute ==
    NudgesReturned =>
        /\ ret.out = get_payment_nudges(OnlyAutopayDebits(bank_data), now)
        /\ \A i \in 1..Len(ret.out.value) :
              \E r \in 1..Len(AllRows(bank_data)) :
                 LET row == AllRows(bank_data)[r]
                 IN /\ AutopayDebit(row)
                    /\ row[3] = ret.out.value[i].last_paid
                    /\ GroupKey(NormalizeRow(row, "").value)
                          = <<ret.out.value[i].category, ret.out.value[i].amount>>

\* Nudges were returned for a payload that also holds a credit under the
\* label and amount of a nudge, dated after the debit the nudge names.
C21_Witness ==
    /\ NudgesReturned
    /\ \E i \in 1..Len(ret.out.value) :
          \E r \in 1..Len(AllRows(bank_data)) :
             LET row == AllRows(bank_data)[r]
             IN /\ Len(row) >= 6
                /\ ParseInt(row[4]).val = 1
                /\ GroupKey(NormalizeRow(row, "").value)
                      = <<ret.out.value[i].category, ret.out.value[i].amount>>
                /\ StrLess(ret.out.value[i].last_paid, row[3])

HasSixFields(row) == Len(row) >= 6

\* C25: the direction of an emitted transaction is CREDIT exactly when the
\* directionCode of its row is 1; code 2 gives DEBIT and every other
\* integer code gives DEBIT too: a row is neither rejected nor skipped for
\* its integer code.
C25_CreditOnlyForCodeOne ==
    ret.op = "parse_bank_transactions" =>
        LET rows == SelectSeq(AllRows(bank_data), HasSixFields)
        IN /\ (\A i \in 1..Len(rows) :
                    /\ ParseInt(rows[i][4]).ok
                    /\ ParseFloat(rows[i][1]).ok /\ ParseFloat(rows[i][6]).ok)
                 => ret.out.kind = "return"
           /\ ret.out.kind = "return" =>
                 /\ Len(ret.out.value) = Len(rows)
                 /\ \A i \in 1..Len(rows) :
                       /\ ret.out.value[i].narration = rows[i][2]
                       /\ ret.out.value[i].txn_type = "CREDIT"
                             <=> ParseInt(rows[i][4]).val = 1
                       /\ ParseInt(rows[i][4]).val # 1
                             => ret.out.value[i].txn_type = "DEBIT"

\* Records were emitted for a row of code 1, a row of code 2 and a row of
\* another code.
C25_Witness ==
    /\ ret.op = "parse_bank_transactions"
    /\ ret.out.kind = "return"
    /\ Len(ret.out.value) = 3
    /\ LET rows == SelectSeq(AllRows(bank_data), HasSixFields)
       IN {rows[i][4] : i \in 1..Len(rows)} = {"1", "2", "3"}

\* C26: every returned nudge is due between 5 and 30 days after today,
\* both included, whatever the history and the reference time: none is due
\* today or in the past.
C26_DueWithinFiveToThirtyDays ==
    NudgesReturned =>
        \A i \in 1..Len(ret.out.value) :
            /\ Strptime(ret.out.value[i].due).ok
            /\ DueDay(ret.out.value[i]) >= now.ord + 5
            /\ DueDay(ret.out.value[i]) <= now.ord + 30

\* Nudges were returned that are due in 5 days, for a payment more than 25
\* days old, and in 30 days.
C26_Witness ==
    /\ NudgesReturned
    /\ \E i, j \in 1..Len(ret.out.value) :
          /\ DueDay(ret.out.value[i]) = now.ord + 5
          /\ Strptime(ret.out.value[i].last_paid).val.ord < now.ord - 25
          /\ DueDay(ret.out.value[j]) = now.ord + 30

-----------------------------------------------------------------------------
(* Aggregator                                                              *)

\* A defaultdict(float) in insertion order, as the list of its items
\* <<key, sum>>: the index of the item of a key, 0 when it has none.
RECURSIVE ItemIndexFrom(_, _, _)
ItemIndexFrom(d, key, i) ==
    IF i > Len(d) THEN 0
    ELSE IF d[i][1] = key THEN i
    ELSE ItemIndexFrom(d, key, i + 1)

\* d[key] += amount
DictAdd(d, key, amount) ==
    LET i == ItemIndexFrom(d, key, 1)
    IN IF i > 0 THEN [d EXCEPT ![i] = <<key, @[2] + amount>>]
       ELSE Append(d, <<key, 0 + amount>>)

\* d.get(key, 0)
DictGet(d, key) ==
    LET i == ItemIndexFrom(d, key, 1)
    IN IF i > 0 THEN d[i][2] ELSE 0

\* Lines 346, 374, 400: from_dt <= txn_date <= to_dt
InRange(txn_date, from_dt, to_dt) == DtLeq(from_dt, txn_date) /\ DtLeq(txn_date, to_dt)

\* Lines 343-348, 371-376, 397-402: the loop the three views share, after
\* it has visited the first n transactions: the sums of the debits of the
\* range under the key the view gives them, or the ValueError strptime
\* raised at a debit whose date it rejects.  view is "day", "month" or
\* "category".
RECURSIVE SumDebits(_, _, _, _, _)
SumDebits(txns, n, from_dt, to_dt, view) ==
    IF n = 0 THEN Return(<<>>)
    ELSE LET before   == SumDebits(txns, n - 1, from_dt, to_dt, view)
             txn      == txns[n]
             txn_date == Strptime(txn.date)
         IN IF before.kind = "raise" THEN before
            ELSE IF txn.txn_type # "DEBIT" THEN before
            ELSE IF ~txn_date.ok THEN Raise("ValueError")
            ELSE IF ~InRange(txn_date.val, from_dt, to_dt) THEN before
            ELSE LET key == IF view = "day" THEN txn.date
                            ELSE IF view = "month" THEN StrftimeMonth(txn_date.val)
                            ELSE txn.category
                 IN Return(DictAdd(before.value, key, txn.amount))

\* Lines 351-359: one entry for each day from current to to_dt.
RECURSIVE DayEntries(_, _, _)
DayEntries(current, to_dt, daily_spend) ==
    IF ~DtLeq(current, to_dt) THEN <<>>
    ELSE <<[date |-> Strftime(current), amount |-> DictGet(daily_spend, Strftime(current))]>>
            \o DayEntries(PlusDays(current, 1), to_dt, daily_spend)

\* Lines 336-361
calculate_daily_spend(txns, from, to) ==
    LET from_dt == Strptime(from)
        to_dt   == Strptime(to)
    IN IF ~from_dt.ok \/ ~to_dt.ok THEN Raise("ValueError")
       ELSE LET daily_spend == SumDebits(txns, Len(txns), from_dt.val, to_dt.val, "day")
            IN IF daily_spend.kind = "raise" THEN daily_spend
               ELSE Return(DayEntries(from_dt.val, to_dt.val, daily_spend.value))

\* Line 380: sorted(monthly_spend.items()), ascending by month key.
RECURSIVE InsertByKey(_, _)
InsertByKey(sorted, item) ==
    IF sorted = <<>> THEN <<item>>
    ELSE IF StrLess(item[1], Head(sorted)[1]) THEN <<item>> \o sorted
    ELSE <<Head(sorted)>> \o InsertByKey(Tail(sorted), item)

RECURSIVE SortByKey(_, _)
SortByKey(items, sorted) ==
    IF items = <<>> THEN sorted
    ELSE SortByKey(Tail(items), InsertByKey(sorted, Head(items)))

\* Lines 364-386
calculate_monthly_spend(txns, from, to) ==
    LET from_dt == Strptime(from)
        to_dt   == Strptime(to)
    IN IF ~from_dt.ok \/ ~to_dt.ok THEN Raise("ValueError")
       ELSE LET monthly_spend == SumDebits(txns, Len(txns), from_dt.val, to_dt.val, "month")
            IN IF monthly_spend.kind = "raise" THEN monthly_spend
               ELSE LET items == SortByKey(monthly_spend.value, <<>>)
                    IN Return([i \in 1..Len(items) |->
                                  [month |-> items[i][1], amount |-> items[i][2]]])

\* Line 406: sorted(..., key=lambda x: x[1], reverse=True), which keeps
\* categories of equal amount in insertion order.
RECURSIVE InsertByAmount(_, _)
InsertByAmount(sorted, item) ==
    IF sorted = <<>> THEN <<item>>
    ELSE IF Head(sorted)[2] < item[2] THEN <<item>> \o sorted
    ELSE <<Head(sorted)>> \o InsertByAmount(Tail(sorted), item)

RECURSIVE SortByAmount(_, _)
SortByAmount(items, sorted) ==
    IF items = <<>> THEN sorted
    ELSE SortByAmount(Tail(items), InsertByAmount(sorted, Head(items)))

\* The quotient q and remainder r of a division by d, carried k decimal
\* places further.
RECURSIVE DecimalPlaces(_, _, _, _)
DecimalPlaces(q, r, d, k) ==
    IF k = 0 THEN <<q, r>>
    ELSE DecimalPlaces((q * 10) + ((r * 10) \div d), (r * 10) % d, d, k - 1)

\* round(): to the nearest, a tie to the even one; q + r/d with 0 <= r < d.
RoundHalfEven(q, r, d) ==
    IF 2 * r < d THEN q
    ELSE IF 2 * r > d THEN q + 1
    ELSE IF q % 2 = 0 THEN q ELSE q + 1

\* Lines 407 and 411: round(amount / total_spend * 100, 2) when
\* total_spend > 0, else 0; the percentage in hundredths of a percent.
Percentage(amount, total_spend) ==
    IF total_spend > 0
    THEN LET qr == DecimalPlaces(amount \div total_spend, amount % total_spend,
                                 total_spend, 4)
         IN RoundHalfEven(qr[1], qr[2], total_spend)
    ELSE 0

RECURSIVE SumOfItems(_)
SumOfItems(items) == IF items = <<>> THEN 0 ELSE Head(items)[2] + SumOfItems(Tail(items))

\* Lines 389-417
calculate_category_breakdown(txns, from, to) ==
    LET from_dt == Strptime(from)
        to_dt   == Strptime(to)
    IN IF ~from_dt.ok \/ ~to_dt.ok THEN Raise("ValueError")
       ELSE LET category_spend == SumDebits(txns, Len(txns), from_dt.val, to_dt.val, "category")
            IN IF category_spend.kind = "raise" THEN category_spend
               ELSE LET items == SortByAmount(category_spend.value, <<>>)
                        total_spend == SumOfItems(category_spend.value)
                    IN Return([total |-> total_spend,
                               breakdown |->
                                  [i \in 1..Len(items) |->
                                      [category   |-> items[i][1],
                                       amount     |-> items[i][2],
                                       percentage |-> Percentage(items[i][2], total_spend)]]])

-----------------------------------------------------------------------------
(* The Aggregator called on a snapshot: SpecAgg                            *)

\* The most transactions a snapshot drawn from Txns holds.
MaxTxns == 3

\* The most categories of a snapshot of many small categories.
MaxCategories == 23

Txn(type, date, amount, category) ==
    [txn_type |-> type, date |-> date, amount |-> amount, category |-> category]

\* Normalized transactions: debits and credits on several days, two months
\* and two years, a debit whose date is written without the leading zero
\* of the day, and records whose date is no calendar date.
Txns == {
    Txn("DEBIT", "2024-12-05", 45000, "Shopping"),
    Txn("DEBIT", "2024-12-05", 1500000, "Housing"),
    Txn("DEBIT", "2024-11-30", 64900, "Streaming"),
    Txn("DEBIT", "2024-12-06", 33333, "Dining"),
    Txn("DEBIT", "2025-01-02", 100050, "Shopping"),
    Txn("DEBIT", "2024-12-5", 20000, "Groceries"),
    Txn("CREDIT", "2024-12-05", 8000000, "Others"),
    Txn("DEBIT", "2024-02-30", 50000, "Bills"),
    Txn("CREDIT", "not a date", 10000, "Others") }

TxnSeqs(max) == UNION {[1..n -> Txns] : n \in 0..max}

\* k debits of 4.90 on one day, each in a category of its own (a manual
\* transaction carries the category its sender gives it), beside one debit
\* that brings the total to 100000.00.
ManyCategories(k) ==
    [i \in 1..(k + 1) |->
        IF i <= k THEN Txn("DEBIT", "2024-12-05", 490, "Cat" \o NatStr(i))
        ELSE Txn("DEBIT", "2024-12-05", 10000000 - (490 * k), "Housing")]

Snapshots(max, categories) ==
    TxnSeqs(max) \cup {ManyCategories(k) : k \in 1..(categories - 1)}

Ranges == { <<"2024-11-29", "2024-12-06">>,
            <<"2024-12-05", "2024-12-05">>,
            <<"2024-12-30", "2025-01-02">>,
            <<"2024-12-06", "2024-12-05">> }

InitAgg ==
    /\ transactions \in Snapshots(MaxTxns, MaxCategories)
    /\ \E r \in Ranges : from_date = r[1] /\ to_date = r[2]
    /\ ret = NoCall
    /\ bank_data = ErrorPayload
    /\ now = DateTime(2024, 12, 1, 0)
    /\ deleted_nudges = <<>>
    /\ demo_transactions = <<>>
    /\ dismissed = <<>>
    /\ next_id = 0
    /\ args = <<>>
    /\ handlers = <<>>

\* The mutation a scan of the snapshot would make if it consumed the list
\* it walks.
AfterScan_consumed(txns) == <<>>

\* Lines 343-348, 372-377 and 398-403: the loops of the three views read
\* txn['txn_type'], txn['date'], txn['amount'] and txn['category']; no
\* statement assigns to the list or to a record of it, and the sums go to
\* a defaultdict of the call's own.
AfterScan(txns) == txns

CallDaily ==
    /\ ret = NoCall
    /\ ret' = [op |-> "calculate_daily_spend",
               out |-> calculate_daily_spend(transactions, from_date, to_date)]
    /\ transactions' = AfterScan(transactions)
    /\ UNCHANGED <<bank_data, now, from_date, to_date,
                   deleted_nudges, demo_transactions, dismissed, next_id, args, handlers>>

CallMonthly ==
    /\ ret = NoCall
    /\ ret' = [op |-> "calculate_monthly_spend",
               out |-> calculate_monthly_spend(transactions, from_date, to_date)]
    /\ transactions' = AfterScan(transactions)
    /\ UNCHANGED <<bank_data, now, from_date, to_date,
                   deleted_nudges, demo_transactions, dismissed, next_id, args, handlers>>

CallBreakdown ==
    /\ ret = NoCall
    /\ ret' = [op |-> "calculate_category_breakdown",
               out |-> calculate_category_breakdown(transactions, from_date, to_date)]
    /\ transactions' = AfterScan(transactions)
    /\ UNCHANGED <<bank_data, now, from_date, to_date,
                   deleted_nudges, demo_transactions, dismissed, next_id, args, handlers>>

NextAgg == CallDaily \/ CallMonthly \/ CallBreakdown

SpecAgg == InitAgg /\ [][NextAgg]_vars

-----------------------------------------------------------------------------
(* Claims about the Aggregator                                             *)

ValidDate(s) == Strptime(s).ok

\* The view of the last call, computed on another snapshot.
ViewOf(op, txns) ==
    IF op = "calculate_daily_spend" THEN calculate_daily_spend(txns, from_date, to_date)
    ELSE IF op = "calculate_monthly_spend" THEN calculate_monthly_spend(txns, from_date, to_date)
    ELSE calculate_category_breakdown(txns, from_date, to_date)

HasValidDate(txn) == ValidDate(txn.date)

\* C7: a transaction whose date is no valid calendar date is left out of
\* the daily, monthly and category views without failing them: each view
\* gives what it gives for the snapshot without that record.
C7_InvalidDateExcluded ==
    ret.op \in {"calculate_daily_spend", "calculate_monthly_spend",
                "calculate_category_breakdown"}
        => ret.out = ViewOf(ret.op, SelectSeq(transactions, HasValidDate))

C8_OneEntryPerDay ==
    (/\ ret.op = "calculate_daily_spend"
     /\ ValidDate(from_date) /\ ValidDate(to_date)
     /\ DtLeq(Strptime(from_date).val, Strptime(to_date).val))
        => /\ ret.out.kind = "return"
           /\ Len(ret.out.value)
                 = DaysBetween(Strptime(to_date).val, Strptime(from_date).val) + 1
           /\ \A i \in 1..Len(ret.out.value) :
                 ret.out.value[i].date
                    = Strftime(PlusDays(Strptime(from_date).val, i - 1))

RECURSIVE SumPercentages(_)
SumPercentages(breakdown) ==
    IF breakdown = <<>> THEN 0
    ELSE Head(breakdown).percentage + SumPercentages(Tail(breakdown))

\* C9: when the total debit spend of the range is > 0, the percentages of
\* the breakdown sum to 100 within 0.1, whatever the number of categories.
C9_PercentagesSumTo100 ==
    (/\ ret.op = "calculate_category_breakdown"
     /\ ret.out.kind = "return"
     /\ ret.out.value.total > 0)
        => /\ SumPercentages(ret.out.value.breakdown) >= 10000 - 10
           /\ SumPercentages(ret.out.value.breakdown) <= 10000 + 10

\* A debit of the snapshot dated inside the range.
DebitInRange(txn) ==
    /\ txn.txn_type = "DEBIT"
    /\ ValidDate(txn.date)
    /\ InRange(Strptime(txn.date).val, Strptime(from_date).val, Strptime(to_date).val)

\* C10: when no DEBIT transaction falls inside [from, to],
\* calculate_category_breakdown returns an empty breakdown and total 0.
C10_EmptyBreakdown ==
    (/\ ret.op = "calculate_category_breakdown"
     /\ ValidDate(from_date) /\ ValidDate(to_date)
     /\ \A i \in 1..Len(transactions) : ~DebitInRange(transactions[i]))
        => ret.out = Return([total |-> 0, breakdown |-> <<>>])

\* The sum of the amounts of the debits among the first n transactions
\* whose date is the calendar day of ordinal day.
RECURSIVE DebitsOfDay(_, _, _)
DebitsOfDay(txns, n, day) ==
    IF n = 0 THEN 0
    ELSE DebitsOfDay(txns, n - 1, day)
         + (IF /\ txns[n].txn_type = "DEBIT"
               /\ ValidDate(txns[n].date)
               /\ Strptime(txns[n].date).val.ord = day
            THEN txns[n].amount ELSE 0)

\* C22: in the list calculate_daily_spend returns, the amount of each
\* day's entry is the sum of the amounts of the DEBIT transactions dated
\* that day, 0 for a day with none; credits and transactions of other days
\* add nothing to it.
C22_DailyAmountIsSumOfDayDebits ==
    (ret.op = "calculate_daily_spend" /\ ret.out.kind = "return")
        => \A i \in 1..Len(ret.out.value) :
              ret.out.value[i].amount
                 = DebitsOfDay(transactions, Len(transactions),
                               Strptime(ret.out.value[i].date).val.ord)

\* The <<year, month>> of a date string that is a calendar date, and of a
\* month key 'YYYY-MM'.
MonthOfDate(date) ==
    LET ymd == OrdToYmd(Strptime(date).val.ord) IN <<ymd[1], ymd[2]>>

MonthOfKey(key) ==
    LET p == SplitOn(key, "-") IN <<DigitsValue(p[1]), DigitsValue(p[2])>>

\* The sum of the amounts of the debits of the range among the first n
\* transactions that are dated in the month.
RECURSIVE DebitsOfMonth(_, _, _)
DebitsOfMonth(txns, n, month) ==
    IF n = 0 THEN 0
    ELSE DebitsOfMonth(txns, n - 1, month)
         + (IF DebitInRange(txns[n]) /\ MonthOfDate(txns[n].date) = month
            THEN txns[n].amount ELSE 0)

\* C23: calculate_monthly_spend returns exactly one entry for each month
\* that holds a DEBIT dated inside [from, to], with the sum of those debits,
\* in ascending order of month key; a month without such a debit has no
\* entry.
C23_OneEntryPerSpendingMonth ==
    (ret.op = "calculate_monthly_spend" /\ ValidDate(from_date) /\ ValidDate(to_date))
        => /\ ret.out.kind = "return"
           /\ LET entries == ret.out.value
              IN /\ {MonthOfKey(entries[i].month) : i \in 1..Len(entries)}
                       = {MonthOfDate(transactions[k].date) :
                             k \in {n \in 1..Len(transactions) :
                                       DebitInRange(transactions[n])}}
                 /\ \A i, j \in 1..Len(entries) :
                       i < j => StrLess(entries[i].month, entries[j].month)
                 /\ \A i \in 1..Len(entries) :
                       entries[i].amount
                          = DebitsOfMonth(transactions, Len(transactions),
                                          MonthOfKey(entries[i].month))

\* The sum of the amount fields of a list of entries.
RECURSIVE SumAmounts(_)
SumAmounts(entries) ==
    IF entries = <<>> THEN 0 ELSE Head(entries).amount + SumAmounts(Tail(entries))

\* C27: on one snapshot and one range the three views agree: the daily
\* amounts, the monthly amounts and the category amounts of the breakdown
\* each sum to the breakdown's total.
C27_ViewsAgree ==
    (/\ ret.op \in {"calculate_daily_spend", "calculate_monthly_spend",
                    "calculate_category_breakdown"}
     /\ ret.out.kind = "return")
        => LET daily     == calculate_daily_spend(transactions, from_date, to_date)
               monthly   == calculate_monthly_spend(transactions, from_date, to_date)
               breakdown == calculate_category_breakdown(transactions, from_date, to_date)
           IN /\ daily.kind = "return" /\ monthly.kind = "return"
              /\ breakdown.kind = "return"
              /\ SumAmounts(daily.value) = breakdown.value.total
              /\ SumAmounts(monthly.value) = breakdown.value.total
              /\ SumAmounts(breakdown.value.breakdown) = breakdown.value.total

-----------------------------------------------------------------------------
(* The session overlay of the web surface (src/api.py)                     *)

\* s.strip(), for blanks.
RECURSIVE DropTrailingBlanks(_)
DropTrailingBlanks(s) ==
    IF s # "" /\ CharAt(s, Len(s)) = " "
    THEN DropTrailingBlanks(SubSeq(s, 1, Len(s) - 1))
    ELSE s

StrStrip(s) == DropTrailingBlanks(DropBlanks(s))

\* raise HTTPException(status_code=status)
Http(status) == [kind |-> "raise", exc |-> "HTTPException", status_code |-> status]

\* The list of the session replaced by the record, as a store in which the
\* last writer wins would leave it.
add_demo_transaction_last_writer(store, sessionid, transaction) ==
    IF sessionid \in DOMAIN store
    THEN [store EXCEPT ![sessionid] = <<transaction>>]
    ELSE store @@ (sessionid :> <<transaction>>)

\* _demo_transactions.get(sessionid, [])
get_demo_transactions(store, sessionid) ==
    IF sessionid \in DOMAIN store THEN store[sessionid] ELSE <<>>

add_demo_transaction(store, sessionid, transaction) ==
    IF sessionid \in DOMAIN store
    THEN [store EXCEPT ![sessionid] = Append(@, transaction)]
    ELSE store @@ (sessionid :> <<transaction>>)

\* _deleted_nudges.get(sessionid, set())
get_deleted_nudges(store, sessionid) ==
    IF sessionid \in DOMAIN store THEN store[sessionid] ELSE {}

\* The category stored as the caller wrote it.
add_deleted_nudge_verbatim(store, sessionid, category) ==
    IF sessionid \in DOMAIN store
    THEN [store EXCEPT ![sessionid] = @ \cup {category}]
    ELSE store @@ (sessionid :> {category})

\* _deleted_nudges[sessionid].add(category.lower())
add_deleted_nudge(store, sessionid, category) ==
    IF sessionid \in DOMAIN store
    THEN [store EXCEPT ![sessionid] = @ \cup {StrLower(category)}]
    ELSE store @@ (sessionid :> {StrLower(category)})

\* The index, from i on, of the first nudge whose category is the given
\* one but for case, 0 when there is none.
RECURSIVE NudgeToDeleteFrom(_, _, _)
NudgeToDeleteFrom(current_nudges, category, i) ==
    IF i > Len(current_nudges) THEN 0
    ELSE IF StrLower(current_nudges[i].category) = StrLower(category) THEN i
    ELSE NudgeToDeleteFrom(current_nudges, category, i + 1)

NudgeToDelete(current_nudges, category) == NudgeToDeleteFrom(current_nudges, category, 1)

\* The record DELETE /api/nudges/{category} stores for the payment: it has
\* no id.  The amount of a nudge is in whole units (int(txn['amount'])).
payment_transaction(nudge_to_delete, today) ==
    [amount    |-> nudge_to_delete.amount * 100,
     narration |-> "Payment: " \o nudge_to_delete.category
                               \o " - " \o nudge_to_delete.merchant,
     category  |-> nudge_to_delete.category,
     date      |-> Strftime(today),
     type      |-> "expense",
     txn_type  |-> "DEBIT"]

\* The day of 1970-01-01, which datetime.fromtimestamp counts from (the
\* server's zone taken as UTC).
EpochOrd == YmdToOrd(1970, 1, 1)

\* The date of a request turned into the stored one: an ISO instant is cut
\* at its 'T', a timestamp of seconds or of 13 digits of milliseconds is
\* turned into its day, DD/MM/YYYY is reordered, a blank or absent date is
\* today, and anything else is kept as it is.
ConvertDate(date, today) ==
    IF date = "" THEN Strftime(today)
    ELSE IF Contains(date, "T") THEN SplitOn(date, "T")[1]
    ELSE IF AllDigits(date) /\ Len(date) > 8
         THEN LET timestamp == IF Len(date) = 13
                               THEN DigitsValue(SubSeq(date, 1, 10))
                               ELSE DigitsValue(date)
              IN Strftime([ord |-> EpochOrd + (timestamp \div SecondsPerDay),
                           sec |-> timestamp % SecondsPerDay])
    ELSE IF Contains(date, "/") /\ Len(SplitOn(date, "/")) = 3
         THEN LET parts == SplitOn(date, "/")
              IN IF Len(parts[1]) = 2 /\ Len(parts[2]) = 2
                 THEN parts[3] \o "-" \o parts[2] \o "-" \o parts[1]
                 ELSE date
    ELSE IF StrStrip(date) = "" THEN Strftime(today)
    ELSE date

\* The fields POST and PUT /api/transactions both build from a request; an
\* absent category or date is the empty string, which takes the branches
\* None takes.
DemoRecord(id, sessionid, transaction, today) ==
    [id        |-> id,
     user_id   |-> sessionid,
     amount    |-> transaction.amount,
     narration |-> StrStrip(transaction.narration),
     category  |-> IF transaction.category = ""
                   THEN categorize_transaction(transaction.narration, "")
                   ELSE transaction.category,
     date      |-> ConvertDate(transaction.date, today),
     type      |-> transaction.type,
     txn_type  |-> IF transaction.type = "expense" THEN "DEBIT" ELSE "CREDIT",
     merchant  |-> FirstWord(transaction.narration),
     source    |-> "demo"]

new_transaction(id, sessionid, transaction, today) ==
    DemoRecord(id, sessionid, transaction, today)
        @@ [created_at |-> today, status |-> "completed"]

updated_transaction(id, sessionid, transaction, today) ==
    DemoRecord(id, sessionid, transaction, today)
        @@ [updated_at |-> today, status |-> "updated"]

\* The validation POST and PUT share: 0 when the request passes, else the
\* status it is refused with.
Refused(transaction) ==
    IF transaction.amount <= 0 THEN 400
    ELSE IF StrStrip(transaction.narration) = "" THEN 400
    ELSE 0

\* The list comprehension of DELETE /api/transactions/{id}: txn['id'] raises
\* KeyError on a record that has no id.
HasId(txn) == "id" \in DOMAIN txn

\* PUT's loop: the index of the first record with the id, 0 when there is
\* none, -1 when a record without id comes before it (KeyError).
RECURSIVE FindById(_, _, _)
FindById(records, transaction_id, i) ==
    IF i > Len(records) THEN 0
    ELSE IF ~HasId(records[i]) THEN -1
    ELSE IF records[i].id = transaction_id THEN i
    ELSE FindById(records, transaction_id, i + 1)

-----------------------------------------------------------------------------
(* The sessions of the web surface: Spec                                   *)

\* The most records the demo lists hold together, and the most ids handed out.
MaxDemo == 2
MaxIds == 1

Sessions == {"s1", "s2"}

\* What the provider answers with: four recurring payments of which two
\* are SIPs, a failed
\* fetch, and rows of which one has no number for its amount.
ApiPayloads == {
    [bankTransactions |-> <<[bank |-> "HDFC Bank", txns |-> <<
        <<"649", "NETFLIX.COM", "2024-12-20", "2", "CARD", "91351">>,
        <<"15000", "Rent to landlord", "2024-12-05", "2", "NEFT", "76351">>,
        <<"3000.50", "sip hdfcmf", "2024-12-05", "2", "ACH", "92000">>,
        <<"5000", "SIP-KOTAKMF-GROWTH", "2024-11-25", "2", "ACH", "95000">> >>]>>],
    ErrorPayload,
    [bankTransactions |-> <<[bank |-> "HDFC Bank", txns |-> <<
        <<"649", "NETFLIX.COM", "2024-12-20", "2", "CARD", "91351">>,
        <<"abc", "NETFLIX.COM", "2024-12-05", "2", "CARD", "1000">> >>]>>] }

\* The times of the requests.
ApiNows == {DateTime(2024, 12, 1, 0), DateTime(2024, 12, 21, 43200)}

\* TransactionProcessor.get_payment_nudges(bank_data) of the handlers, for
\* each answer of the provider at each time of a request.
NudgesAt ==
    [bank \in ApiPayloads, current_date \in ApiNows |->
        get_payment_nudges(bank, current_date)]

\* The {category} of a DELETE /api/nudges/{category}.
CategoryArgs == {"KOTAK MF SIP", "Gym"}

Request(amount, narration, category, date, type) ==
    [amount |-> amount, narration |-> narration, category |-> category,
     date |-> date, type |-> type]

\* Bodies of POST and PUT /api/transactions.
Requests == {
    Request(64900, " NETFLIX JULY ", "", "05/12/2024", "expense"),
    Request(0 - 500, "Refund", "", "", "expense"),
    Request(1000, "  ", "", "", "expense") }

TotalDemo ==
    LET RECURSIVE Total(_)
        Total(S) == IF S = {} THEN 0
                    ELSE LET s == CHOOSE x \in S : TRUE
                         IN Len(demo_transactions[s]) + Total(S \ {s})
    IN Total(DOMAIN demo_transactions)

Init ==
    /\ bank_data \in ApiPayloads
    /\ now = DateTime(2024, 12, 1, 0)
    /\ ret = NoCall
    /\ transactions = <<>>
    /\ from_date = ""
    /\ to_date = ""
    /\ deleted_nudges = <<>>
    /\ demo_transactions = <<>>
    /\ dismissed = [s \in Sessions |-> {}]
    /\ next_id = 0
    /\ args = <<>>
    /\ handlers = <<>>

Answer(op, sessionid, out) == [op |-> op, sessionid |-> sessionid, out |-> out]

\* The handler with the dismissed labels taken out of the groups before
\* the nudges are built, not out of the nudges.
filtered_nudges_before(data, current_date, deleted) ==
    LET parsed == parse_bank_transactions(data)
        Open(group) == StrLower(group.key[1]) \notin deleted
        Built(groups) ==
            LET built == BuildNudges(sorted_patterns(SelectSeq(groups, Open)),
                                     <<>>, {}, current_date)
            IN IF built.kind = "raise" THEN Http(500)
               ELSE Return(SortByDue(built.value))
    IN IF parsed.kind = "raise" THEN Http(500)
       ELSE Built(recurring_patterns(parsed.value))

\* Lines 219-230: the nudges of the payload, less those whose lower-cased
\* category is among the deleted ones; any exception becomes HTTP 500.
filtered_nudges(data, current_date, deleted) ==
    LET Kept(nudge) == StrLower(nudge.category) \notin deleted
        Filtered(nudges) ==
            IF nudges.kind = "raise" THEN Http(500)
            ELSE Return(SelectSeq(nudges.value, Kept))
    IN Filtered(NudgesAt[data, current_date])

\* GET /api/nudges (lines 215-231).
api_get_payment_nudges(sessionid) ==
    /\ ret' = Answer("GET /api/nudges", sessionid,
                     filtered_nudges(bank_data, now,
                                     get_deleted_nudges(deleted_nudges, sessionid)))
    /\ UNCHANGED <<bank_data, now, transactions, from_date, to_date,
                   deleted_nudges, demo_transactions, dismissed, next_id, args, handlers>>

\* DELETE /api/nudges/{category} (lines 233-285).
delete_payment_nudge(sessionid, category) ==
    LET Paid(nudge_to_delete, payment) ==
            /\ TotalDemo < MaxDemo
            /\ deleted_nudges' = add_deleted_nudge(deleted_nudges, sessionid, category)
            /\ demo_transactions' =
                  add_demo_transaction(demo_transactions, sessionid, payment)
            /\ dismissed' = [dismissed EXCEPT ![sessionid] = @ \cup {category}]
            /\ ret' = Answer("DELETE /api/nudges", sessionid,
                             Return([success |-> TRUE,
                                     deleted_nudge |-> nudge_to_delete,
                                     created_transaction |-> payment]))
            /\ UNCHANGED <<bank_data, now, transactions, from_date, to_date, next_id, args, handlers>>
        Refuse(status) ==
            /\ ret' = Answer("DELETE /api/nudges", sessionid, Http(status))
            /\ UNCHANGED <<bank_data, now, transactions, from_date, to_date,
                           deleted_nudges, demo_transactions, dismissed, next_id, args, handlers>>
        Found(nudge_to_delete) ==
            Paid(nudge_to_delete, payment_transaction(nudge_to_delete, now))
        Looked(current_nudges, found) ==
            IF found = 0 THEN Refuse(404) ELSE Found(current_nudges[found])
        Fetched(current_nudges) ==
            IF current_nudges.kind = "raise" THEN Refuse(500)
            ELSE Looked(current_nudges.value,
                        NudgeToDelete(current_nudges.value, category))
    IN Fetched(NudgesAt[bank_data, now])

\* POST /api/transactions (lines 506-585).
add_transaction(sessionid, transaction) ==
    LET Stored(created) ==
            /\ TotalDemo < MaxDemo
            /\ next_id < MaxIds
            /\ next_id' = next_id + 1
            /\ demo_transactions' =
                  add_demo_transaction(demo_transactions, sessionid, created)
            /\ ret' = Answer("POST /api/transactions", sessionid,
                             Return([success |-> TRUE, transaction |-> created]))
            /\ UNCHANGED <<bank_data, now, transactions, from_date, to_date,
                           deleted_nudges, dismissed, args, handlers>>
        Validated(status) ==
            IF status # 0
            THEN /\ ret' = Answer("POST /api/transactions", sessionid, Http(status))
                 /\ UNCHANGED <<bank_data, now, transactions, from_date, to_date,
                                deleted_nudges, demo_transactions, dismissed, next_id, args, handlers>>
            ELSE Stored(new_transaction(next_id + 1, sessionid, transaction, now))
    IN Validated(Refused(transaction))

\* PUT /api/transactions/{transaction_id} (lines 588-670).
update_transaction(sessionid, transaction_id, transaction_update) ==
    LET Refuse(status) ==
            /\ ret' = Answer("PUT /api/transactions", sessionid, Http(status))
            /\ UNCHANGED <<bank_data, now, transactions, from_date, to_date,
                           deleted_nudges, demo_transactions, dismissed, next_id, args, handlers>>
        Replaced(updated, found) ==
            IF found < 0 THEN Refuse(500)
            ELSE /\ demo_transactions' =
                       IF found = 0 THEN demo_transactions
                       ELSE [demo_transactions EXCEPT ![sessionid][found] = updated]
                 /\ ret' = Answer("PUT /api/transactions", sessionid,
                                  Return([success |-> TRUE, transaction |-> updated]))
                 /\ UNCHANGED <<bank_data, now, transactions, from_date, to_date,
                                deleted_nudges, dismissed, next_id, args, handlers>>
        Validated(status) ==
            IF status # 0 THEN Refuse(status)
            ELSE Replaced(updated_transaction(transaction_id, sessionid,
                                              transaction_update, now),
                          FindById(get_demo_transactions(demo_transactions, sessionid),
                                   transaction_id, 1))
    IN Validated(Refused(transaction_update))

\* DELETE /api/transactions/{transaction_id} (lines 674-695).
delete_transaction(sessionid, transaction_id) ==
    LET Other(txn) == txn.id # transaction_id
        Filtered(records) ==
            IF \E i \in 1..Len(records) : ~HasId(records[i])
            THEN /\ ret' = Answer("DELETE /api/transactions", sessionid, Http(500))
                 /\ UNCHANGED <<bank_data, now, transactions, from_date, to_date,
                                deleted_nudges, demo_transactions, dismissed, next_id, args, handlers>>
            ELSE /\ demo_transactions' =
                       IF sessionid \in DOMAIN demo_transactions
                       THEN [demo_transactions EXCEPT
                                ![sessionid] = SelectSeq(records, Other)]
                       ELSE demo_transactions
                 /\ ret' = Answer("DELETE /api/transactions", sessionid,
                                  Return([success |-> TRUE,
                                          transaction_id |-> transaction_id]))
                 /\ UNCHANGED <<bank_data, now, transactions, from_date, to_date,
                                deleted_nudges, dismissed, next_id, args, handlers>>
    IN Filtered(get_demo_transactions(demo_transactions, sessionid))

\* Time passes between two requests.
Tick ==
    /\ \E t \in ApiNows : DtLess(now, t) /\ now' = t
    /\ UNCHANGED <<bank_data, transactions, from_date, to_date, ret,
                   deleted_nudges, demo_transactions, dismissed, next_id, args, handlers>>

\* The provider's answer changes between two requests; the two sessions
\* are answered differently when it changes between their requests.
UpstreamChange ==
    /\ \E payload \in ApiPayloads : payload # bank_data /\ bank_data' = payload
    /\ UNCHANGED <<now, transactions, from_date, to_date, ret,
                   deleted_nudges, demo_transactions, dismissed, next_id, args, handlers>>

GetNudges == \E sessionid \in Sessions : api_get_payment_nudges(sessionid)

DeleteNudge ==
    \E sessionid \in Sessions, category \in CategoryArgs :
        delete_payment_nudge(sessionid, category)

AddTransaction ==
    \E sessionid \in Sessions, transaction \in Requests :
        add_transaction(sessionid, transaction)

UpdateTransaction ==
    \E sessionid \in Sessions, transaction_id \in 1..MaxIds, transaction \in Requests :
        update_transaction(sessionid, transaction_id, transaction)

DeleteTransaction ==
    \E sessionid \in Sessions, transaction_id \in 1..MaxIds :
        delete_transaction(sessionid, transaction_id)

Next ==
    \/ GetNudges
    \/ DeleteNudge
    \/ AddTransaction
    \/ UpdateTransaction
    \/ DeleteTransaction
    \/ Tick
    \/ UpstreamChange

Spec == Init /\ [][Next]_vars

-----------------------------------------------------------------------------
(* Claims about the session overlay                                        *)

NudgesServed == ret.op = "GET /api/nudges" /\ ret.out.kind = "return"

\* C2: once DELETE /api/nudges/{category} has succeeded for a session, no
\* later GET /api/nudges of that session, whatever was done in between,
\* returns a nudge whose category is that category but for case.
C2_DismissedNeverReturned ==
    NudgesServed =>
        \A i \in 1..Len(ret.out.value) :
            \A category \in dismissed[ret.sessionid] :
                StrLower(ret.out.value[i].category) # StrLower(category)

\* A GET that answers with some nudge while the provider's payload still
\* holds a recurring payment the session dismissed, in a spelling that is
\* not the label's, after a transaction was added.
C2_Witness ==
    /\ NudgesServed
    /\ ret.out.value # <<>>
    /\ next_id > 0
    /\ LET unfiltered == NudgesAt[bank_data, now]
       IN /\ unfiltered.kind = "return"
          /\ \E i \in 1..Len(unfiltered.value) :
                \E category \in dismissed[ret.sessionid] :
                    /\ category # unfiltered.value[i].category
                    /\ StrLower(category) = StrLower(unfiltered.value[i].category)


\* The nudges the engine gives for the payload and the time of the
\* request, before any dismissal is looked at.
Unfiltered == NudgesAt[bank_data, now]

\* The session has dismissed the category of the nudge.
DismissedBy(sessionid, nudge) ==
    \E category \in dismissed[sessionid] :
        StrLower(nudge.category) = StrLower(category)

\* The nudges of the list that the session has not dismissed.
NotDismissedBy(sessionid, nudges) ==
    LET NotDismissed(nudge) == ~DismissedBy(sessionid, nudge)
    IN SelectSeq(nudges, NotDismissed)

\* C19: for the same bank data and the same reference time, the list GET
\* /api/nudges returns after categories were dismissed is the list it
\* returns with nothing dismissed, less the entries of those categories;
\* no other group of a dismissed nudge's dedup key takes its place.
C19_DismissalIsPostFilter ==
    [][(/\ ret' # ret
        /\ ret'.op = "GET /api/nudges"
        /\ Unfiltered.kind = "return")
           => ret'.out = Return(NotDismissedBy(ret'.sessionid, Unfiltered.value))]_vars

\* A GET answered, with fewer nudges than the payload gives, after the
\* session dismissed the nudge of a dedup key that another group of the
\* payload shares.
C19_Witness ==
    /\ NudgesServed
    /\ Unfiltered.kind = "return"
    /\ ret.out.value = NotDismissedBy(ret.sessionid, Unfiltered.value)
    /\ \E i \in 1..Len(Unfiltered.value) :
          /\ DismissedBy(ret.sessionid, Unfiltered.value[i])
          /\ \E g \in 1..Len(GroupsOf(bank_data)) :
                /\ GroupsOf(bank_data)[g].key[1] # Unfiltered.value[i].category
                /\ category_key(GroupsOf(bank_data)[g].key[1])
                      = category_key(Unfiltered.value[i].category)

\* The records of the list but the manual transactions of the given id.
WithoutId(records, transaction_id) ==
    LET Stays(txn) == ~(HasId(txn) /\ txn.id = transaction_id)
    IN SelectSeq(records, Stays)

\* C28: after any sequence of add_transaction and delete_payment_nudge
\* calls of a session, delete_transaction(id) completes successfully,
\* removes exactly the stored manual transactions of that id and leaves
\* every other stored record of the session, the payment records of the
\* dismissals among them, and the records of the other sessions as they
\* were.
C28_DeleteTransactionRemovesOnlyItsId ==
    [][(/\ ret'.op = "DELETE /api/transactions"
        /\ (ret' # ret \/ demo_transactions' # demo_transactions))
           => /\ ret'.out.kind = "return"
              /\ get_demo_transactions(demo_transactions', ret'.sessionid)
                    = WithoutId(get_demo_transactions(demo_transactions, ret'.sessionid),
                                ret'.out.value.transaction_id)
              /\ \A other \in Sessions \ {ret'.sessionid} :
                    get_demo_transactions(demo_transactions', other)
                       = get_demo_transactions(demo_transactions, other)]_vars

-----------------------------------------------------------------------------
(* Handlers of one session in flight together: SpecConc                    *)
(*                                                                         *)
(* The handlers are coroutines of one event loop: a handler runs until it  *)
(* awaits, and another handler runs only then.  delete_payment_nudge       *)
(* awaits once, the provider's answer (line 241); add_transaction has no   *)
(* await.                                                                  *)

\* The requests in flight together.
MaxHandlers == 3

\* The session they all belong to.
ConcurrentSession == "s1"

\* The {category} of the concurrent DELETE /api/nudges/{category}.
DismissCategories == {"KOTAK MF SIP", "Netflix", "Gym"}

\* A request in flight: a DELETE /api/nudges/{category} whose handler has
\* reached its await, or a POST /api/transactions whose handler has not
\* run yet.
InFlight ==
    {[op |-> "delete_payment_nudge", category |-> c, pc |-> "awaiting"] :
        c \in DismissCategories}
    \cup {[op |-> "add_transaction", transaction |-> t, pc |-> "called"] :
            t \in Requests}

\* The requests are numbered in the order of their text: which of two
\* requests in flight is called the first carries no meaning.
RequestText(handler) ==
    IF handler.op = "add_transaction" THEN "POST " \o handler.transaction.narration
    ELSE "DELETE " \o handler.category

InitConc ==
    /\ bank_data \in ApiPayloads
    /\ now = DateTime(2024, 12, 1, 0)
    /\ handlers \in [1..MaxHandlers -> InFlight]
    /\ \A h \in 1..(MaxHandlers - 1) :
          StrLeq(RequestText(handlers[h]), RequestText(handlers[h + 1]))
    /\ ret = NoCall
    /\ transactions = <<>>
    /\ from_date = ""
    /\ to_date = ""
    /\ deleted_nudges = <<>>
    /\ demo_transactions = <<>>
    /\ dismissed = <<>>
    /\ next_id = 0
    /\ args = <<>>

\* The handler at its end, with its answer.
Done(handler, out) == [handler EXCEPT !.pc = "done"] @@ [out |-> out]

\* Line 241: the provider answers a handler that awaits it; the handler
\* holds the answer from then on and runs again when the loop resumes it.
FetchReturns(h) ==
    /\ handlers[h].pc = "awaiting"
    /\ handlers' = [handlers EXCEPT
                       ![h] = [@ EXCEPT !.pc = "fetched"] @@ [bank_data |-> bank_data]]
    /\ UNCHANGED <<bank_data, now, transactions, from_date, to_date, ret,
                   deleted_nudges, demo_transactions, dismissed, next_id, args>>

\* Lines 242-280: the rest of delete_payment_nudge, which has no await:
\* the nudges of the answer it holds, the search, and the two writes.
ResumeDeleteNudge(h) ==
    LET sessionid == ConcurrentSession
        category  == handlers[h].category
        Paid(nudge_to_delete, payment) ==
            /\ deleted_nudges' = add_deleted_nudge(deleted_nudges, sessionid, category)
            /\ demo_transactions' =
                  add_demo_transaction(demo_transactions, sessionid, payment)
            /\ handlers' = [handlers EXCEPT
                               ![h] = Done(@, Return([success |-> TRUE,
                                                      deleted_nudge |-> nudge_to_delete,
                                                      created_transaction |-> payment]))]
            /\ UNCHANGED <<bank_data, now, transactions, from_date, to_date, ret,
                           dismissed, next_id, args>>
        Refuse(status) ==
            /\ handlers' = [handlers EXCEPT ![h] = Done(@, Http(status))]
            /\ UNCHANGED <<bank_data, now, transactions, from_date, to_date, ret,
                           deleted_nudges, demo_transactions, dismissed, next_id, args>>
        Found(nudge_to_delete) ==
            Paid(nudge_to_delete, payment_transaction(nudge_to_delete, now))
        Looked(current_nudges, found) ==
            IF found = 0 THEN Refuse(404) ELSE Found(current_nudges[found])
        Fetched(current_nudges) ==
            IF current_nudges.kind = "raise" THEN Refuse(500)
            ELSE Looked(current_nudges.value,
                        NudgeToDelete(current_nudges.value, category))
    IN /\ handlers[h].pc = "fetched"
       /\ Fetched(NudgesAt[handlers[h].bank_data, now])

\* Lines 512-585: add_transaction from its first statement to its return.
RunAddTransaction(h) ==
    LET sessionid == ConcurrentSession
        Stored(created) ==
            /\ next_id' = next_id + 1
            /\ demo_transactions' =
                  add_demo_transaction(demo_transactions, sessionid, created)
            /\ handlers' = [handlers EXCEPT
                               ![h] = Done(@, Return([success |-> TRUE,
                                                      transaction |-> created]))]
            /\ UNCHANGED <<bank_data, now, transactions, from_date, to_date, ret,
                           deleted_nudges, dismissed, args>>
        Validated(status) ==
            IF status # 0
            THEN /\ handlers' = [handlers EXCEPT ![h] = Done(@, Http(status))]
                 /\ UNCHANGED <<bank_data, now, transactions, from_date, to_date, ret,
                                deleted_nudges, demo_transactions, dismissed,
                                next_id, args>>
            ELSE Stored(new_transaction(next_id + 1, sessionid,
                                        handlers[h].transaction, now))
    IN /\ handlers[h].pc = "called"
       /\ Validated(Refused(handlers[h].transaction))

Fetch == \E h \in 1..MaxHandlers : FetchReturns(h)

Resume == \E h \in 1..MaxHandlers : ResumeDeleteNudge(h)

RunAdd == \E h \in 1..MaxHandlers : RunAddTransaction(h)

NextConc == Fetch \/ Resume \/ RunAdd \/ UpstreamChange

SpecConc == InitConc /\ [][NextConc]_vars

-----------------------------------------------------------------------------
(* Claims about handlers in flight together                                *)

AllDone == \A h \in 1..Len(handlers) : handlers[h].pc = "done"

\* The handlers of an operation that have answered with a success.
Succeeded(op) ==
    {h \in 1..Len(handlers) :
        /\ handlers[h].op = op
        /\ handlers[h].pc = "done"
        /\ handlers[h].out.kind = "return"}

\* C30: under every interleaving of delete_payment_nudge and
\* add_transaction handlers of one session no overlay write is lost: at no
\* point is a category in the dismissed set without a payment record in
\* the list, and when all handlers have finished the dismissed set holds
\* every dismissed category and the list holds every added transaction
\* and one payment record for each successful dismissal, and nothing else.
C30_NoOverlayWriteLost ==
    LET stored == get_demo_transactions(demo_transactions, ConcurrentSession)
        gone   == get_deleted_nudges(deleted_nudges, ConcurrentSession)
        payments == {i \in 1..Len(stored) : ~HasId(stored[i])}
    IN /\ \A category \in gone :
             \E i \in payments : StrLower(stored[i].category) = category
       /\ AllDone =>
             /\ \A h \in Succeeded("delete_payment_nudge") :
                   /\ StrLower(handlers[h].category) \in gone
                   /\ \E i \in payments :
                         stored[i] = handlers[h].out.value.created_transaction
             /\ \A h \in Succeeded("add_transaction") :
                   \E i \in 1..Len(stored) :
                      stored[i] = handlers[h].out.value.transaction
             /\ Cardinality(payments) = Cardinality(Succeeded("delete_payment_nudge"))
             /\ Len(stored) = Cardinality(Succeeded("delete_payment_nudge"))
                                 + Cardinality(Succeeded("add_transaction"))

\* All handlers have finished: two dismissals of different categories and
\* an addition succeeded, one dismissal on an answer of the provider that
\* was no longer the current one when the last handler finished.
C30_Witness ==
    /\ handlers # <<>>
    /\ AllDone
    /\ Succeeded("add_transaction") # {}
    /\ \E g, h \in Succeeded("delete_payment_nudge") :
          /\ StrLower(handlers[g].category) # StrLower(handlers[h].category)
          /\ handlers[h].bank_data # bank_data

-----------------------------------------------------------------------------
(* Goals: goals_manager.py                                                 *)

\* s.replace('Z', '+00:00')
RECURSIVE ReplaceZ(_)
ReplaceZ(s) ==
    IF s = "" THEN ""
    ELSE (IF CharAt(s, 1) = "Z" THEN "+00:00" ELSE CharAt(s, 1)) \o ReplaceZ(Tail(s))

\* The second of the day that HH:MM or HH:MM:SS writes.
ClockOf(t) ==
    LET hh == SubSeq(t, 1, 2)
        mm == SubSeq(t, 4, 5)
        ss == IF Len(t) = 8 THEN SubSeq(t, 7, 8) ELSE "00"
    IN IF /\ Len(t) \in {5, 8}
          /\ CharAt(t, 3) = ":" /\ (Len(t) = 8 => CharAt(t, 6) = ":")
          /\ AllDigits(hh) /\ AllDigits(mm) /\ AllDigits(ss)
          /\ DigitsValue(hh) < 24 /\ DigitsValue(mm) < 60 /\ DigitsValue(ss) < 60
       THEN Ok((3600 * DigitsValue(hh)) + (60 * DigitsValue(mm)) + DigitsValue(ss))
       ELSE Failed

\* An offset +HH:MM or -HH:MM.
IsOffset(z) ==
    /\ Len(z) = 6
    /\ CharAt(z, 1) \in {"+", "-"}
    /\ ClockOf(SubSeq(z, 2, 6)).ok

\* datetime.fromisoformat(s) for YYYY-MM-DD, optionally followed by one
\* separator character, HH:MM or HH:MM:SS and an offset; a string with an
\* offset gives an aware datetime.  Anything else raises ValueError
\* (fractions of a second are not among the strings the model draws).
FromIsoFormat(s) ==
    LET day  == Strptime(SubSeq(s, 1, 10))
        rest == SubSeq(s, 12, Len(s))
        k    == IF Len(rest) >= 8 /\ CharAt(rest, 6) = ":" THEN 8 ELSE 5
        clock == ClockOf(SubSeq(rest, 1, k))
        zone == SubSeq(rest, k + 1, Len(rest))
    IN IF Len(s) < 10 \/ ~day.ok \/ CharAt(s, 5) # "-" \/ CharAt(s, 8) # "-"
       THEN Failed
       ELSE IF Len(s) = 10 THEN Ok([ord |-> day.val.ord, sec |-> 0, aware |-> FALSE])
       ELSE IF Len(rest) < k \/ ~clock.ok THEN Failed
       ELSE IF zone = "" THEN Ok([ord |-> day.val.ord, sec |-> clock.val, aware |-> FALSE])
       ELSE IF IsOffset(zone) THEN Ok([ord |-> day.val.ord, sec |-> clock.val, aware |-> TRUE])
       ELSE Failed

\* Line 125: (current_amount / target_amount * 100) if target_amount > 0
\* else 0, rounded at line 143; in hundredths of a percent.
progress_percentage(current_amount, target_amount) ==
    Percentage(current_amount, target_amount)

\* Lines 129 and 133: amount_remaining / max(days_remaining / 30, 1),
\* rounded at line 144; in hundredths.
monthly_required(amount_remaining, days_remaining) ==
    IF days_remaining > 30
    THEN RoundHalfEven((amount_remaining * 30) \div days_remaining,
                       (amount_remaining * 30) % days_remaining, days_remaining)
    ELSE amount_remaining

\* Lines 136-137: progress_percentage >= (1 - days_remaining / 365) * 100 * 0.8
\* on the unrounded percentage.
on_track(current_amount, target_amount, days_remaining) ==
    IF target_amount > 0
    THEN current_amount * 365 * 5 >= 4 * (365 - days_remaining) * target_amount
    ELSE days_remaining >= 365

\* Lines 116-147.  utcnow is what datetime.utcnow() returns, a naive
\* datetime: subtracting it from an aware target date raises TypeError.
calculate_goal_progress(goal, utcnow) ==
    LET target_date == FromIsoFormat(ReplaceZ(goal.target_date))
        Progress(days_remaining) ==
            Return([goal_id |-> goal.id,
                    name |-> goal.name,
                    target_amount |-> goal.target_amount,
                    current_amount |-> goal.current_amount,
                    target_date |-> goal.target_date,
                    progress_percentage |->
                        progress_percentage(goal.current_amount, goal.target_amount),
                    monthly_required |->
                        monthly_required(goal.target_amount - goal.current_amount,
                                         days_remaining),
                    days_remaining |-> days_remaining,
                    on_track |-> on_track(goal.current_amount, goal.target_amount,
                                          days_remaining)])
    IN IF ~target_date.ok THEN Raise("ValueError")
       ELSE IF target_date.val.aware THEN Raise("TypeError")
       ELSE Progress(DaysBetween(target_date.val, utcnow))

-----------------------------------------------------------------------------
(* What-if simulator: data_processor.py lines 419-457                      *)

\* Numbers too long for one machine integer: the decimal digits of a
\* natural number, the units first.
RECURSIVE DigitsOfNat(_)
DigitsOfNat(n) == IF n = 0 THEN <<>> ELSE <<n % 10>> \o DigitsOfNat(n \div 10)

RECURSIVE NatOfDigits(_)
NatOfDigits(d) == IF d = <<>> THEN 0 ELSE Head(d) + (10 * NatOfDigits(Tail(d)))

\* d * k + carry for a small k.
RECURSIVE TimesSmall(_, _, _)
TimesSmall(d, k, carry) ==
    IF d = <<>> THEN DigitsOfNat(carry)
    ELSE LET t == (Head(d) * k) + carry
         IN <<t % 10>> \o TimesSmall(Tail(d), k, t \div 10)

\* d * k ** n
RECURSIVE TimesPower(_, _, _)
TimesPower(d, k, n) ==
    IF n = 0 THEN d ELSE TimesPower(TimesSmall(d, k, 0), k, n - 1)

\* The digits at and above position places + 1, and the digits below it,
\* padded with zeros to that many places.
WholePart(d, places) == SubSeq(d, places + 1, Len(d))
FractionPart(d, places) ==
    [i \in 1..places |-> IF i <= Len(d) THEN d[i] ELSE 0]

\* 1 when round() takes whole + 0.fraction to whole + 1, else 0: above the
\* half up, below it down, the half to the even neighbour.
RoundsUp(whole, fraction) ==
    LET places == Len(fraction)
    IN IF places = 0 THEN 0
       ELSE IF fraction[places] > 5 THEN 1
       ELSE IF fraction[places] < 5 THEN 0
       ELSE IF \E i \in 1..(places - 1) : fraction[i] # 0 THEN 1
       ELSE whole % 2

\* The value of a keyword argument: None, or a number.
None == <<>>
Num(n) == <<n>>

\* kwargs.get(key, default)
KwargsGet(kwargs, key, default) ==
    IF key \in DOMAIN kwargs THEN kwargs[key] ELSE Num(default)

\* The quotient and the remainder of a * b / d for d > 0, without forming
\* the product a * b.
MulDiv(a, b, d) ==
    <<((a \div d) * b) + (((a % d) * b) \div d), ((a % d) * b) % d>>

\* The projection with simple interest: amount * (1 + months * monthly_rate).
mf_return_simple(amount, months, annual_rate) ==
    LET monthly_rate == annual_rate \div 12
        final_value == MulDiv(amount, 10000 + (months * monthly_rate), 10000)
        value == RoundHalfEven(final_value[1], final_value[2], 10000)
    IN Return([scenario |-> "mf_return",
               initial_amount |-> amount,
               horizon_months |-> months,
               annual_rate_percent |-> annual_rate,
               projected_value |-> value,
               projected_returns |-> value - amount])

\* Lines 424-439.  amount is in hundredths, annual_rate in ten-thousandths
\* (0.12 is 1200) and a multiple of 12, so that 1 + annual_rate / 12 is
\* (10000 + annual_rate / 12) / 10000, at least 0; months is a natural
\* number.  The value before rounding is amount * factor ** months over
\* 10 ** (4 * months), kept exactly.
mf_return(amount, months, annual_rate) ==
    LET monthly_rate == annual_rate \div 12
        size == IF amount >= 0 THEN amount ELSE 0 - amount
        final_value == TimesPower(DigitsOfNat(size), 10000 + monthly_rate, months)
        whole == NatOfDigits(WholePart(final_value, 4 * months))
        fraction == FractionPart(final_value, 4 * months)
        value == whole + RoundsUp(whole, fraction)
        returns == (whole - size) + RoundsUp(whole - size, fraction)
    IN Return([scenario |-> "mf_return",
               initial_amount |-> amount,
               horizon_months |-> months,
               annual_rate_percent |-> annual_rate,
               projected_value |-> IF amount >= 0 THEN value ELSE 0 - value,
               projected_returns |-> IF amount >= 0 THEN returns ELSE 0 - returns])

\* Lines 443-455.  percent is in hundredths of a percent, monthly_spend in
\* hundredths: monthly_savings is monthly_spend * percent / 10000 and
\* annual_savings twelve times that, each rounded on its own.
spend_reduction(percent, monthly_spend) ==
    LET monthly_savings == MulDiv(monthly_spend, percent, 10000)
        annual_savings == MulDiv(monthly_spend, 12 * percent, 10000)
    IN Return([scenario |-> "spend_reduction",
               reduction_percent |-> percent,
               current_monthly_spend |-> monthly_spend,
               monthly_savings |->
                   RoundHalfEven(monthly_savings[1], monthly_savings[2], 10000),
               annual_savings |->
                   RoundHalfEven(annual_savings[1], annual_savings[2], 10000)])

\* The simulator with the unknown tag handled as a spend reduction.
whatif_simulator_fallthrough(scenario, kwargs) ==
    IF scenario = "mf_return"
    THEN LET amount == KwargsGet(kwargs, "amount", 0)
             months == KwargsGet(kwargs, "horizon_months", 12)
             annual_rate == KwargsGet(kwargs, "annual_rate", 1200)
         IN IF None \in {amount, months, annual_rate} THEN Raise("TypeError")
            ELSE mf_return(amount[1], months[1], annual_rate[1])
    ELSE LET percent == KwargsGet(kwargs, "percent", 1000)
             monthly_spend == KwargsGet(kwargs, "avg_monthly_spend", 5000000)
         IN IF None \in {percent, monthly_spend} THEN Raise("TypeError")
            ELSE spend_reduction(percent[1], monthly_spend[1])

\* Lines 419-457.  A keyword argument that is None reaches the arithmetic
\* of its scenario, which raises TypeError.
whatif_simulator(scenario, kwargs) ==
    IF scenario = "mf_return"
    THEN LET amount == KwargsGet(kwargs, "amount", 0)
             months == KwargsGet(kwargs, "horizon_months", 12)
             annual_rate == KwargsGet(kwargs, "annual_rate", 1200)
         IN IF None \in {amount, months, annual_rate} THEN Raise("TypeError")
            ELSE mf_return(amount[1], months[1], annual_rate[1])
    ELSE IF scenario = "spend_reduction"
    THEN LET percent == KwargsGet(kwargs, "percent", 1000)
             monthly_spend == KwargsGet(kwargs, "avg_monthly_spend", 5000000)
         IN IF None \in {percent, monthly_spend} THEN Raise("TypeError")
            ELSE spend_reduction(percent[1], monthly_spend[1])
    ELSE Return([error |-> "Unknown scenario"])

-----------------------------------------------------------------------------
(* The functions without state, called on drawn arguments: SpecCalc        *)

\* Amounts a goal holds, in hundredths: none, negative, part of the
\* target, the target, more than the target.
GoalAmounts == {0 - 5000, 0, 25000, 33333, 100000, 150000}

\* Target dates as the goal store holds them: a date, naive date-times,
\* date-times with 'Z' or an offset (datetime.isoformat() of an aware
\* value), and text that is no date.
GoalDates == {"2025-06-30", "2024-12-21T00:00:00", "2026-03-01T10:30:00",
              "2024-11-01T00:00", "2025-06-30T00:00:00Z",
              "2025-06-30T00:00:00+05:30", "next year"}

Goal(target_amount, current_amount, target_date) ==
    [id |-> "g1", name |-> "Trip", target_amount |-> target_amount,
     current_amount |-> current_amount, target_date |-> target_date]

GoalCalls ==
    {[fn |-> "calculate_goal_progress", goal |-> Goal(t, c, d)] :
        t \in GoalAmounts, c \in GoalAmounts, d \in GoalDates}

\* Narrations and modes of a row: text with a priority keyword, with a
\* keyword that is in CATEGORY_MAPPINGS alone, with both, with several,
\* with none, in upper and lower case.
Narrations == {"NETFLIX SUBSCRIPTION", "RENT PAYMENT TO LANDLORD", "HOUSE RENT",
               "netflix via airtel", "AMEX CREDIT CARD", "GROCERIES BIGBASKET",
               "DINING AND SPOTIFY", "ZERODHA BILLPAY", "SALARY", ""}

Modes == {"UPI", "NEFT", "CARD", ""}

CategorizeCalls ==
    {[fn |-> "categorize_transaction", narration |-> n, merchant |-> m] :
        n \in Narrations, m \in Modes}

\* Each keyword of CATEGORY_MAPPINGS as a narration of its own, with no mode.
KeywordCalls ==
    {[fn |-> "categorize_transaction", narration |-> MappingKeys[i], merchant |-> ""] :
        i \in 1..Len(MappingKeys)}

\* Scenario tags: the two scenarios and tags that are neither.
Scenarios == {"mf_return", "spend_reduction", "sip_growth", "MF_RETURN", ""}

\* Keyword arguments: the examples of the two scenarios, other amounts,
\* horizons, rates, percentages and spends, arguments left out, and the
\* arguments POST /api/whatif passes when the request names the scenario
\* alone (api.py lines 493-499: amount and percent are None).
MfKwargs ==
    {[amount |-> Num(a), horizon_months |-> Num(h), annual_rate |-> Num(r)] :
        a \in {1000000, 12345, 1, 0, 0 - 250000}, h \in {0, 1, 7, 12},
        r \in {1200, 600, 0, 0 - 1200, 2412}}

SpendKwargs ==
    {[percent |-> Num(p), avg_monthly_spend |-> Num(m)] :
        p \in {2000, 1000, 700, 3333, 0}, m \in {5000000, 30, 100050, 0}}

OtherKwargs ==
    {<<>>,
     [percent |-> Num(2000)],
     [amount |-> None, horizon_months |-> Num(12), annual_rate |-> Num(1200),
      percent |-> None]}

WhatIfCalls ==
    {[fn |-> "whatif_simulator", scenario |-> sc, kwargs |-> kw] :
        sc \in Scenarios, kw \in MfKwargs \cup SpendKwargs \cup OtherKwargs}

Calls == GoalCalls \cup CategorizeCalls \cup KeywordCalls \cup WhatIfCalls

InitCalc ==
    /\ args \in Calls
    /\ handlers = <<>>
    /\ now \in Nows
    /\ ret = NoCall
    /\ bank_data = ErrorPayload
    /\ transactions = <<>>
    /\ from_date = ""
    /\ to_date = ""
    /\ deleted_nudges = <<>>
    /\ demo_transactions = <<>>
    /\ dismissed = <<>>
    /\ next_id = 0

\* GET /api/goals/{goal_id}/progress: api.py line 1267.
CallGoalProgress ==
    /\ ret = NoCall
    /\ args.fn = "calculate_goal_progress"
    /\ ret' = [op |-> args.fn, out |-> calculate_goal_progress(args.goal, now)]
    /\ UNCHANGED <<bank_data, now, transactions, from_date, to_date,
                   deleted_nudges, demo_transactions, dismissed, next_id, args, handlers>>

\* data_processor.py line 133: categorize_transaction(narration, mode).
CallCategorize ==
    /\ ret = NoCall
    /\ args.fn = "categorize_transaction"
    /\ ret' = [op |-> args.fn,
               out |-> Return(categorize_transaction(args.narration, args.merchant))]
    /\ UNCHANGED <<bank_data, now, transactions, from_date, to_date,
                   deleted_nudges, demo_transactions, dismissed, next_id, args, handlers>>

\* TransactionProcessor.whatif_simulator(scenario, **kwargs)
CallWhatIf ==
    /\ ret = NoCall
    /\ args.fn = "whatif_simulator"
    /\ ret' = [op |-> args.fn, out |-> whatif_simulator(args.scenario, args.kwargs)]
    /\ UNCHANGED <<bank_data, now, transactions, from_date, to_date,
                   deleted_nudges, demo_transactions, dismissed, next_id, args, handlers>>

NextCalc == CallGoalProgress \/ CallCategorize \/ CallWhatIf

SpecCalc == InitCalc /\ [][NextCalc]_vars

-----------------------------------------------------------------------------
(* Claims about the functions without state                                *)

\* C12: calculate_goal_progress returns progress_percentage exactly 0
\* whenever target_amount <= 0, and the percentage it returns does not
\* decrease when current_amount grows and the target stays as it is.
C12_ProgressPercentage ==
    ret.op = "calculate_goal_progress" =>
        /\ args.goal.target_amount <= 0 =>
              /\ ret.out.kind = "return"
              /\ ret.out.value.progress_percentage = 0
        /\ \A more \in GoalAmounts :
              LET other == calculate_goal_progress(
                               [args.goal EXCEPT !.current_amount = more], now)
              IN (/\ more >= args.goal.current_amount
                  /\ ret.out.kind = "return"
                  /\ other.kind = "return")
                 => other.value.progress_percentage
                       >= ret.out.value.progress_percentage

\* C24: for a goal whose target date can be read, calculate_goal_progress
\* returns days_remaining as the whole days from now to the target date,
\* negative when the goal is overdue; months_remaining is never below 1, so
\* no division by zero happens, monthly_required is target - current for
\* every goal with 30 days or fewer remaining, overdue goals included, and
\* (target - current) / (days_remaining / 30) to the hundredth otherwise.
C24_MonthlyRequiredClamped ==
    (/\ ret.op = "calculate_goal_progress"
     /\ FromIsoFormat(ReplaceZ(args.goal.target_date)).ok)
        => /\ ret.out.kind = "return"
           /\ LET target    == FromIsoFormat(ReplaceZ(args.goal.target_date)).val
                  seconds   == ((target.ord - now.ord) * SecondsPerDay)
                                  + (target.sec - now.sec)
                  days      == ret.out.value.days_remaining
                  remaining == args.goal.target_amount - args.goal.current_amount
                  required  == ret.out.value.monthly_required
                  error     == (required * days) - (remaining * 30)
              IN /\ days * SecondsPerDay <= seconds
                 /\ seconds < (days + 1) * SecondsPerDay
                 /\ days <= 30 => required = remaining
                 /\ days > 30 => (2 * error <= days /\ 2 * (0 - error) <= days)

\* The positions in priority_keywords of the keywords the text contains.
PriorityHits(combined) ==
    {i \in 1..Len(priority_keywords) : Contains(combined, priority_keywords[i])}

\* The keywords of CATEGORY_MAPPINGS that are not priority keywords and
\* that the text contains.
GenericOnlyHits(combined) ==
    {k \in {MappingKeys[i] : i \in 1..Len(MappingKeys)} :
        /\ \A i \in 1..Len(priority_keywords) : priority_keywords[i] # k
        /\ Contains(combined, k)}

Least(S) == CHOOSE i \in S : \A j \in S : i <= j

\* C13: when the upper-cased narration and mode contain a priority keyword
\* and a keyword that is in CATEGORY_MAPPINGS alone, categorize_transaction
\* gives the category of the first priority keyword, in the order of the
\* priority list, that the text contains; "NETFLIX SUBSCRIPTION" with mode
\* "UPI" gives "Streaming".
C13_PriorityBeatsGeneric ==
    ret.op = "categorize_transaction" =>
        LET combined == StrUpper(args.narration \o " " \o args.merchant)
        IN /\ (PriorityHits(combined) # {} /\ GenericOnlyHits(combined) # {})
                 => ret.out = Return(MappingGet(
                                  priority_keywords[Least(PriorityHits(combined))]))
           /\ (args.narration = "NETFLIX SUBSCRIPTION" /\ args.merchant = "UPI")
                 => ret.out = Return("Streaming")

\* "NETFLIX SUBSCRIPTION" paid by "UPI" has been classified: the text holds
\* the priority keyword NETFLIX and the keyword UPI of CATEGORY_MAPPINGS.
C13_Witness ==
    /\ ret.op = "categorize_transaction"
    /\ args.narration = "NETFLIX SUBSCRIPTION" /\ args.merchant = "UPI"
    /\ "UPI" \in GenericOnlyHits(StrUpper(args.narration \o " " \o args.merchant))
    /\ ret.out = Return("Streaming")

\* C14: categorize_transaction("RENT PAYMENT TO LANDLORD", "") returns
\* "Housing".
C14_RentIsHousing ==
    (/\ ret.op = "categorize_transaction"
     /\ args.narration = "RENT PAYMENT TO LANDLORD" /\ args.merchant = "")
        => ret.out = Return("Housing")

\* C29: every keyword of CATEGORY_MAPPINGS classifies to its own mapped
\* category: categorize_transaction with the keyword as narration and an
\* empty mode returns the category the keyword is mapped to ("CREDIT CARD"
\* gives "Credit Card Payment"); no keyword is shadowed by another that is
\* a substring of it.
C29_KeywordGivesItsCategory ==
    (ret.op = "categorize_transaction" /\ args.merchant = "")
        => \A i \in 1..Len(CATEGORY_MAPPINGS) :
              args.narration = CATEGORY_MAPPINGS[i][1]
                 => ret.out = Return(CATEGORY_MAPPINGS[i][2])

\* The digit of position i of a long number, 0 beyond its length.
DigitAt(d, i) == IF i <= Len(d) THEN d[i] ELSE 0

\* a <= b on long numbers, decided from position i down.
RECURSIVE BigLeqFrom(_, _, _)
BigLeqFrom(a, b, i) ==
    IF i = 0 THEN TRUE
    ELSE IF DigitAt(a, i) < DigitAt(b, i) THEN TRUE
    ELSE IF DigitAt(a, i) > DigitAt(b, i) THEN FALSE
    ELSE BigLeqFrom(a, b, i - 1)

BigLeq(a, b) == BigLeqFrom(a, b, IF Len(a) > Len(b) THEN Len(a) ELSE Len(b))

\* a + b on long numbers, from position i up.
RECURSIVE BigAddFrom(_, _, _, _)
BigAddFrom(a, b, i, carry) ==
    IF i > Len(a) /\ i > Len(b) THEN DigitsOfNat(carry)
    ELSE LET t == DigitAt(a, i) + DigitAt(b, i) + carry
         IN <<t % 10>> \o BigAddFrom(a, b, i + 1, t \div 10)

BigAdd(a, b) == BigAddFrom(a, b, 1, 0)

\* cents, a number of hundredths, is within half a hundredth of the long
\* number exact taken over 10 ** places.
WithinHalfCent(cents, exact, places) ==
    LET scaled == [i \in 1..places |-> 0] \o DigitsOfNat(cents)
        half   == IF places = 0 THEN <<>>
                  ELSE [i \in 1..places |-> IF i = places THEN 5 ELSE 0]
    IN /\ cents >= 0
       /\ BigLeq(exact, BigAdd(scaled, half))
       /\ BigLeq(scaled, BigAdd(exact, half))

\* The keyword arguments of the call are numbers, or left out.
NumericKwargs(keys) ==
    \A k \in keys : k \in DOMAIN args.kwargs => args.kwargs[k] # None

\* C15: whatif_simulator("mf_return") returns as projected_value the value
\* amount * (1 + annual_rate / 12) ** horizon_months rounded to two
\* decimals, and as projected_returns that value less the amount, rounded
\* to two decimals; amount 10000, 12 months and rate 0.12 give a projected
\* value within 0.01 of 11268.25.
C15_MfReturnCompounds ==
    (/\ ret.op = "whatif_simulator"
     /\ args.scenario = "mf_return"
     /\ NumericKwargs({"amount", "horizon_months", "annual_rate"}))
        => LET amount == KwargsGet(args.kwargs, "amount", 0)[1]
               months == KwargsGet(args.kwargs, "horizon_months", 12)[1]
               annual_rate == KwargsGet(args.kwargs, "annual_rate", 1200)[1]
               size  == IF amount >= 0 THEN amount ELSE 0 - amount
               sign  == IF amount >= 0 THEN 1 ELSE 0 - 1
               exact == TimesPower(DigitsOfNat(size),
                                   10000 + (annual_rate \div 12), months)
               out   == ret.out.value
           IN /\ ret.out.kind = "return"
              /\ WithinHalfCent(sign * out.projected_value, exact, 4 * months)
              /\ WithinHalfCent((sign * out.projected_returns) + size,
                                exact, 4 * months)
              /\ (amount = 1000000 /\ months = 12 /\ annual_rate = 1200)
                    => /\ out.projected_value >= 1126825 - 1
                       /\ out.projected_value <= 1126825 + 1

\* The example of the claim has been computed: 10000 at 0.12 a year over
\* 12 months gave 11268.25, of which 1268.25 are returns.
C15_Witness ==
    /\ ret.op = "whatif_simulator"
    /\ args.scenario = "mf_return"
    /\ args.kwargs = [amount |-> Num(1000000), horizon_months |-> Num(12),
                      annual_rate |-> Num(1200)]
    /\ ret.out.kind = "return"
    /\ ret.out.value.projected_value = 1126825
    /\ ret.out.value.projected_returns = 126825

\* C16: whatif_simulator("spend_reduction") returns monthly_savings =
\* avg_monthly_spend * percent / 100 and annual_savings = 12 *
\* monthly_savings for every input; percent 20 and avg_monthly_spend 50000
\* give 10000.00 and 120000.00.
C16_SpendReductionSavings ==
    (/\ ret.op = "whatif_simulator"
     /\ args.scenario = "spend_reduction"
     /\ NumericKwargs({"percent", "avg_monthly_spend"}))
        => LET percent == KwargsGet(args.kwargs, "percent", 1000)[1]
               monthly_spend == KwargsGet(args.kwargs, "avg_monthly_spend", 5000000)[1]
               product == MulDiv(monthly_spend, percent, 10000)
               out == ret.out.value
           IN /\ ret.out.kind = "return"
              /\ product = <<out.monthly_savings, 0>>
              /\ out.annual_savings = 12 * out.monthly_savings
              /\ (percent = 2000 /\ monthly_spend = 5000000)
                    => /\ out.monthly_savings = 1000000
                       /\ out.annual_savings = 12000000

\* C17: for a scenario tag other than "mf_return" and "spend_reduction",
\* whatif_simulator returns {'error': 'Unknown scenario'} and raises no
\* exception, whatever keyword arguments it is given.
C17_UnknownScenario ==
    (/\ ret.op = "whatif_simulator"
     /\ args.scenario \notin {"mf_return", "spend_reduction"})
        => ret.out = Return([error |-> "Unknown scenario"])

\* An unknown tag has been answered with keyword arguments that are None,
\* which the two scenarios cannot compute with.
C17_Witness ==
    /\ ret.op = "whatif_simulator"
    /\ args.scenario = "sip_growth"
    /\ "amount" \in DOMAIN args.kwargs
    /\ args.kwargs["amount"] = None
    /\ ret.out.kind = "return"

=============================================================================
